---- MODULE Spec2Model ----
(***************************************************************************)
(* Model of mcp-nfse-nacional: the certificate login, the auto re-login    *)
(* wrapper around the cached cookies (index.ts), the 30-day window crawl   *)
(* of buscar_nfse and the detail fetchers get_nfse / get_nfse_pdf          *)
(* (src/nfse.ts).                                                          *)
(*                                                                         *)
(* Each component has its own specification over its own variables; the    *)
(* other components' variables stay at their initial values:               *)
(*   Spec        withAutoLogin / ensureAuthenticated, concurrent callers   *)
(*   SpecSeq     the same, one tool call at a time                         *)
(*   SpecLogin   one call of login against every portal response          *)
(*   SpecCrawl   one call of buscar_nfse                                   *)
(*   SpecDetail  one call of get_nfse or get_nfse_pdf                      *)
(***************************************************************************)
EXTENDS Integers, Sequences, FiniteSets, TLC

(***************************************************************************)
(* Bounds of the model.                                                    *)
(***************************************************************************)
NumCallers == 2
MaxLogins == 2
TicksPerDay == 2     \* instants told apart within one calendar day
MaxStartDay == 1     \* data_inicio falls on day 0..MaxStartDay
MaxDay == 62         \* data_fim falls on day 0..MaxDay
JobWindows == 2      \* windows of a crawl that runs beside another call
MaxTransports == 2   \* transports the HTTP server creates
HttpRequests == 2    \* requests the HTTP server receives

Callers == 1..NumCallers

\* A value that may be null or undefined: None, or Some(v).
None == <<>>
Some(v) == <<v>>

(***************************************************************************)
(* Strings that the code inspects with includes / endsWith are sequences   *)
(* of path segments, "/EmissorNacional/Login" being <<"EmissorNacional",   *)
(* "Login">>.                                                              *)
(***************************************************************************)
LoginPath == <<"EmissorNacional", "Login">>
DashboardPath == <<"EmissorNacional", "Dashboard">>

\* String.prototype.endsWith
endsWith(s, suffix) ==
    /\ Len(s) >= Len(suffix)
    /\ SubSeq(s, Len(s) - Len(suffix) + 1, Len(s)) = suffix

\* String.prototype.includes
includes(s, part) ==
    \E i \in 0..(Len(s) - Len(part)) : SubSeq(s, i + 1, i + Len(part)) = part

(***************************************************************************)
(* Errors.  UnauthenticatedSessionException extends ApplicationException;  *)
(* "Error" stands for any error that is not an ApplicationException        *)
(* (AxiosError, TypeError, a parser error).                                *)
(***************************************************************************)
ErrorKinds == {"ApplicationException", "UnauthenticatedSessionException", "Error"}

ApplicationException(message) ==
    [kind |-> "ApplicationException", message |-> message]

UnauthenticatedSessionException ==
    [kind |-> "UnauthenticatedSessionException",
     message |-> <<"Sessao nao autenticada ou expirada.">>]

\* error instanceof UnauthenticatedSessionException
IsUnauthenticated(error) == error.kind = "UnauthenticatedSessionException"

\* error instanceof ApplicationException (the subclass included)
IsApplicationException(error) ==
    error.kind \in {"ApplicationException", "UnauthenticatedSessionException"}

(***************************************************************************)
(* State.                                                                  *)
(***************************************************************************)
VARIABLES
    \* index.ts, process-wide
    cachedCookies,  \* None (null) or Some(session)
    env,            \* CERT_PASSWORD, CERT_FILE and the certificate file
    \* the portal
    accepted,       \* the cookie arrays the portal still accepts
    issued,         \* number of login requests answered so far
    loginRequests,  \* number of login requests received
    \* one withAutoLogin call per caller
    pc,             \* position of the caller inside withAutoLogin
    cookies,        \* const cookies (None until ensureAuthenticated returned)
    freshCookies,   \* const freshCookies
    ensures,        \* calls of ensureAuthenticated made by the current call
    logins,         \* login requests made by the current call
    runs,           \* runs of action made by the current call: <<session, outcome>>
    outcome,        \* what withAutoLogin returned or threw
    \* one call of login (SpecLogin)
    lg,
    \* one call of buscar_nfse (SpecCrawl)
    data_inicio,    \* the Date arguments, as instants
    data_fim,
    currentStart,
    chunkEnd,
    allNfses,
    cpc,            \* "loop": at the while test; "await": at axios.get; "done"
    windows,        \* one entry per listing request made
    cresult,        \* None, or what buscar_nfse returned or threw
    \* one call of get_nfse or get_nfse_pdf (SpecDetail)
    dt,
    \* one call of getNested (SpecNested)
    gn,
    \* one call of formatNfseResult (SpecFormat)
    fm,
    \* one call of a tool handler (SpecTool)
    th,
    \* two calls of the core functions in progress at once (SpecJobs)
    jobs,
    \* the streamable-HTTP server (SpecHttp)
    http

authVars == <<cachedCookies, env, accepted, issued, loginRequests,
              pc, cookies, freshCookies, ensures, logins, runs, outcome>>
loginVars == <<lg>>
crawlVars == <<data_inicio, data_fim, currentStart, chunkEnd, allNfses, cpc,
               windows, cresult>>
detailVars == <<dt>>
nestedVars == <<gn>>
formatVars == <<fm>>
toolVars == <<th>>
jobVars == <<jobs>>
httpVars == <<http>>
vars == <<authVars, loginVars, crawlVars, detailVars, nestedVars, formatVars,
          toolVars, jobVars, httpVars>>

(***************************************************************************)
(* login (src/nfse.ts).  A response of the portal to the one GET of        *)
(* login: net = "fail" is a request that got no response.                  *)
(***************************************************************************)
Statuses == {199, 200, 302, 399, 400, 500}

Locations ==
    { None,                                           \* no Location header
      Some(<<>>),                                     \* an empty one
      Some(DashboardPath),
      Some(<<"www.nfse.gov.br">> \o DashboardPath),
      Some(DashboardPath \o <<"Extra">>),
      Some(<<"EmissorNacional">>),
      Some(LoginPath) }

NoResponse == [net |-> "fail", status |-> 0, location |-> None, setCookie |-> None]

Responses(cookieSets) ==
    {NoResponse} \cup
    [net : {"ok"}, status : Statuses, location : Locations,
     setCookie : {None} \cup {Some(cs) : cs \in cookieSets}]

\* mutant: 400 passes for a success status
validateStatus_Upto400(status) == status >= 200 /\ status <= 400

\* validateStatus: (status) => status >= 200 && status < 400
validateStatus(status) == status >= 200 /\ status < 400

\* axios.get rejects when there is no response or validateStatus refuses it
axiosRejects(resp) == resp.net = "fail" \/ ~validateStatus(resp.status)

axiosMessage(resp) ==
    IF resp.net = "fail" THEN "Network Error" ELSE "Request failed with status code"

\* !location || !location.endsWith('/EmissorNacional/Dashboard')
badRedirect(location) ==
    \/ location = None
    \/ location[1] = <<>>
    \/ ~endsWith(location[1], DashboardPath)

Threw(error) == [ok |-> FALSE, error |-> error, value |-> <<>>]
Returned(value) == [ok |-> TRUE, error |-> ApplicationException(<<>>), value |-> value]

login(resp) ==
    IF axiosRejects(resp)
    THEN Threw(ApplicationException(<<"Falha ao realizar login", axiosMessage(resp)>>))
    ELSE IF badRedirect(resp.location)
    THEN Threw(ApplicationException(
             <<"Falha ao realizar login", "Redirecionamento incorreto ou ausente.">>))
    ELSE IF resp.setCookie = None
    THEN Returned(<<>>)
    ELSE Returned(resp.setCookie[1])

(***************************************************************************)
(* SpecLogin: one call of login.                                           *)
(***************************************************************************)
LoginCookieSets == {<<1>>, <<1, 2>>}

InitLogin ==
    lg = [pc |-> "start", requests |-> 0, resp |-> NoResponse, result |-> Returned(<<>>)]

\* line 146: the GET is issued
LoginRequest ==
    /\ lg.pc = "start"
    /\ lg' = [lg EXCEPT !.pc = "await", !.requests = @ + 1]

\* lines 151-166: the response (or the failure) arrives
LoginResponse ==
    /\ lg.pc = "await"
    /\ \E resp \in Responses(LoginCookieSets) :
           lg' = [lg EXCEPT !.pc = "done", !.resp = resp, !.result = login(resp)]

(***************************************************************************)
(* ensureAuthenticated and withAutoLogin (index.ts).                       *)
(***************************************************************************)
Envs == [CERT_PASSWORD : BOOLEAN, CERT_FILE : BOOLEAN, pfxExists : BOOLEAN]

\* lines 60-70: the configuration checks; None when they all pass
configError(e) ==
    IF ~e.CERT_PASSWORD THEN Some(<<"CERT_PASSWORD nao configurado.">>)
    ELSE IF ~e.CERT_FILE THEN Some(<<"CERT_FILE nao configurado.">>)
    ELSE IF ~e.pfxExists THEN Some(<<"Certificado nao encontrado em", "pfxPath">>)
    ELSE None

\* mutant: the cache is never consulted
cacheHit_Never(cache) == FALSE

\* line 56: if (cachedCookies); an empty array is truthy
cacheHit(cache) == cache # None

\* A session is the array login returned: id tells one array from another
\* (two empty arrays are two sessions), cookies is its content.
Session(id, cookieArray) == [id |-> id, cookies |-> cookieArray]

\* mutant: a login that resolves does not replace a session already cached
cacheAfterLogin_KeepsCached(cache, r, id) ==
    IF r.ok /\ cache = None THEN Some(Session(id, r.value)) ELSE cache

\* line 73: cachedCookies = await login(...); a rejected login assigns nothing
cacheAfterLogin(cache, r, id) == IF r.ok THEN Some(Session(id, r.value)) ELSE cache

\* mutant: lines 75-77 left out
ensureAfterLogin_NoLengthCheck(r) ==
    IF ~r.ok THEN Threw(r.error) ELSE Returned(r.value)

\* lines 73-79: what ensureAuthenticated returns or throws once login settled
ensureAfterLogin(r) ==
    IF ~r.ok THEN Threw(r.error)
    ELSE IF Len(r.value) = 0
    THEN Threw(ApplicationException(<<"Nenhum cookie recebido apos login.">>))
    ELSE Returned(r.value)

\* line 88: cachedCookies = null
cacheAfterExpiry(cache) == None

\* mutant: the catch block retries after any error of the first run
retries_AnyError(run, error) == run = 1

\* lines 86-92: the catch block retries, and only around the first run
retries(run, error) == run = 1 /\ IsUnauthenticated(error)

\* What a run of the action can end in, given the session it was handed.
RunResults(session) ==
    IF session.cookies \in accepted
    THEN {"return", "ApplicationException"}
    ELSE {"UnauthenticatedSessionException", "ApplicationException"}

ActionError(kind) ==
    IF kind = "UnauthenticatedSessionException"
    THEN UnauthenticatedSessionException
    ELSE ApplicationException(<<"Falha ao obter NFSe", "chave", "causa">>)

Outcome(kind, message, from, n) ==
    Some([kind |-> kind, message |-> message, from |-> from, n |-> n])

\* mutant: the retry's rejection is caught and wrapped
thrown_RetryWrapped(n, error) ==
    IF n = 1 THEN error ELSE ApplicationException(error.message)

\* line 92: throw e, and line 90: the retry sits in the catch block, outside
\* the try, so its rejection leaves withAutoLogin as it is
thrown(n, error) == error

\* mutant: line 90 without its return, so that line 92 rethrows the first error
runOutcome_RetryNotReturned(n, kind) ==
    IF kind = "return" /\ n = 1
    THEN Outcome("return", <<>>, "run", n)
    ELSE IF kind = "return"
    THEN Outcome("UnauthenticatedSessionException",
                 UnauthenticatedSessionException.message, "run", 1)
    ELSE Outcome(kind, ActionError(kind).message, "run", n)

\* lines 85, 90, 92: what withAutoLogin returns or throws when run n of the
\* action ended with `kind` and is not retried
runOutcome(n, kind) ==
    IF kind = "return"
    THEN Outcome("return", <<>>, "run", n)
    ELSE LET e == thrown(n, ActionError(kind))
         IN  Outcome(e.kind, e.message, "run", n)

AuthIdle(e, cache) ==
    /\ cachedCookies = cache
    /\ env = e
    /\ accepted = {}
    /\ issued = 0
    /\ loginRequests = 0
    /\ pc = [c \in Callers |-> "idle"]
    /\ cookies = [c \in Callers |-> None]
    /\ freshCookies = [c \in Callers |-> None]
    /\ ensures = [c \in Callers |-> 0]
    /\ logins = [c \in Callers |-> 0]
    /\ runs = [c \in Callers |-> <<>>]
    /\ outcome = [c \in Callers |-> None]

\* the module just loaded: let cachedCookies = null (line 53)
AuthAtRest(e) == AuthIdle(e, None)

InitAuth == \E e \in Envs : AuthAtRest(e)

\* const cookies = ... (line 83) or const freshCookies = ... (line 89)
Bind(c, session) ==
    IF ensures[c] = 0
    THEN /\ cookies' = [cookies EXCEPT ![c] = Some(session)]
         /\ UNCHANGED freshCookies
    ELSE /\ freshCookies' = [freshCookies EXCEPT ![c] = Some(session)]
         /\ UNCHANGED cookies

\* ensureAuthenticated up to its await (lines 55-73), entered with the cache
\* holding `cache`
EnsureCalled(c, cache) ==
    /\ ensures' = [ensures EXCEPT ![c] = @ + 1]
    /\ IF cacheHit(cache)
       THEN /\ Bind(c, cache[1])
            /\ pc' = [pc EXCEPT ![c] = "run"]
            /\ UNCHANGED <<loginRequests, logins, outcome>>
       ELSE IF configError(env) # None
       THEN /\ outcome' = [outcome EXCEPT ![c] =
                 Outcome("ApplicationException", configError(env)[1], "ensure", ensures[c] + 1)]
            /\ pc' = [pc EXCEPT ![c] = "done"]
            /\ UNCHANGED <<loginRequests, logins, cookies, freshCookies>>
       ELSE /\ loginRequests < MaxLogins
            /\ loginRequests' = loginRequests + 1
            /\ logins' = [logins EXCEPT ![c] = @ + 1]
            /\ pc' = [pc EXCEPT ![c] = "login"]
            /\ UNCHANGED <<outcome, cookies, freshCookies>>

\* a tool handler calls withAutoLogin (line 83)
Call(c) ==
    /\ pc[c] = "idle"
    /\ EnsureCalled(c, cachedCookies)
    /\ UNCHANGED <<cachedCookies, env, accepted, issued, runs>>

\* the login awaited by ensureAuthenticated settles (lines 73-79)
LoginSettled(c) ==
    /\ pc[c] = "login"
    /\ \E resp \in Responses({<<issued + 1>>}) :
         LET r == login(resp)
             e == ensureAfterLogin(r)
             cache == cacheAfterLogin(cachedCookies, r, issued + 1)
         IN  /\ cachedCookies' = cache
             /\ issued' = issued + 1
             /\ accepted' = IF r.ok /\ r.value # <<>>
                            THEN accepted \cup {r.value} ELSE accepted
             /\ IF e.ok
                THEN /\ IF ensures[c] = 1
                        THEN /\ cookies' = [cookies EXCEPT ![c] = cache]
                             /\ UNCHANGED freshCookies
                        ELSE /\ freshCookies' = [freshCookies EXCEPT ![c] = cache]
                             /\ UNCHANGED cookies
                     /\ pc' = [pc EXCEPT ![c] = "run"]
                     /\ UNCHANGED outcome
                ELSE /\ outcome' = [outcome EXCEPT ![c] =
                          Outcome(e.error.kind, e.error.message, "ensure", ensures[c])]
                     /\ pc' = [pc EXCEPT ![c] = "done"]
                     /\ UNCHANGED <<cookies, freshCookies>>
    /\ UNCHANGED <<env, loginRequests, ensures, logins, runs>>

\* await action(cookies) / await action(freshCookies) settles (lines 85-92)
Run(c) ==
    /\ pc[c] = "run"
    /\ LET n == Len(runs[c]) + 1
           session == IF n = 1 THEN cookies[c][1] ELSE freshCookies[c][1]
       IN \E kind \in RunResults(session) :
            /\ runs' = [runs EXCEPT ![c] = Append(@, [session |-> session, result |-> kind])]
            /\ IF kind # "return" /\ retries(n, ActionError(kind))
               THEN /\ cachedCookies' = cacheAfterExpiry(cachedCookies)
                    /\ EnsureCalled(c, cachedCookies')
               ELSE /\ outcome' = [outcome EXCEPT ![c] = runOutcome(n, kind)]
                    /\ pc' = [pc EXCEPT ![c] = "done"]
                    /\ UNCHANGED <<cachedCookies, ensures, loginRequests, logins,
                                   cookies, freshCookies>>
    /\ UNCHANGED <<env, accepted, issued>>

\* the tool handler has its answer; the caller is free for the next tool call
Return(c) ==
    /\ pc[c] = "done"
    /\ pc' = [pc EXCEPT ![c] = "idle"]
    /\ cookies' = [cookies EXCEPT ![c] = None]
    /\ freshCookies' = [freshCookies EXCEPT ![c] = None]
    /\ ensures' = [ensures EXCEPT ![c] = 0]
    /\ logins' = [logins EXCEPT ![c] = 0]
    /\ runs' = [runs EXCEPT ![c] = <<>>]
    /\ outcome' = [outcome EXCEPT ![c] = None]
    /\ UNCHANGED <<cachedCookies, env, accepted, issued, loginRequests>>

\* the portal stops accepting a session
Expire ==
    /\ \E s \in accepted : accepted' = accepted \ {s}
    /\ UNCHANGED <<cachedCookies, env, issued, loginRequests,
                   pc, cookies, freshCookies, ensures, logins, runs, outcome>>

(***************************************************************************)
(* Dates (src/nfse.ts).  A Date is an instant counted in ticks from        *)
(* 01/01/EpochYear 00:00:00 local time, TicksPerDay ticks to the day; the  *)
(* last tick of a day is 23:59:59.                                         *)
(***************************************************************************)
EpochYear == 2026

Date(day, tick) == day * TicksPerDay + tick

\* the calendar day an instant falls on, counted from the epoch
dayOf(date) == date \div TicksPerDay

timeOfDay(date) == date % TicksPerDay

\* date.setDate(date.getDate() + n): n calendar days later, same time of day
addDays(date, n) == date + n * TicksPerDay

isLeap(y) == (y % 4 = 0 /\ y % 100 # 0) \/ y % 400 = 0

daysInMonth(m, y) ==
    IF m \in {4, 6, 9, 11} THEN 30
    ELSE IF m = 2 THEN (IF isLeap(y) THEN 29 ELSE 28)
    ELSE 31

\* getDate(), getMonth() + 1, getFullYear() of the day that lies d days after
\* the first of month m of year y
RECURSIVE civil(_, _, _)
civil(d, m, y) ==
    IF d < daysInMonth(m, y) THEN <<d + 1, m, y>>
    ELSE IF m = 12 THEN civil(d - daysInMonth(m, y), 1, y + 1)
    ELSE civil(d - daysInMonth(m, y), m + 1, y)

\* `${day}/${month}/${year}`
formatDate(date) == civil(dayOf(date), 1, EpochYear)

(***************************************************************************)
(* The listing page (src/nfse.ts, buscar_nfse).  Characters are one-letter *)
(* strings; an href is a sequence of path segments, each a sequence of     *)
(* characters.                                                             *)
(***************************************************************************)
Digits == {"0", "1", "2", "3", "4", "5", "6", "7", "8", "9"}

DownloadPath == <<"EmissorNacional", "Notas", "Download", "NFSe">>

\* (\d+) at the head of a segment: its longest prefix of digits
RECURSIVE leadingDigits(_)
leadingDigits(seg) ==
    IF seg = <<>> \/ Head(seg) \notin Digits THEN <<>>
    ELSE <<Head(seg)>> \o leadingDigits(Tail(seg))

\* href.match(/\/EmissorNacional\/Notas\/Download\/NFSe\/(\d+)/)?.[1], "" if none
RECURSIVE matchKey(_)
matchKey(href) ==
    IF Len(href) <= Len(DownloadPath) THEN <<>>
    ELSE IF SubSeq(href, 1, Len(DownloadPath)) = DownloadPath
            /\ leadingDigits(href[Len(DownloadPath) + 1]) # <<>>
    THEN leadingDigits(href[Len(DownloadPath) + 1])
    ELSE matchKey(Tail(href))

\* lines 210-221: the key of a row, "" when the row is to be skipped
rowChave(row) ==
    IF row.href = None \/ row.href[1] = <<>> THEN <<>>
    ELSE matchKey(row.href[1])

\* text.replace(word, ''): the first occurrence of a word is taken out
RECURSIVE removeFirst(_, _)
removeFirst(text, word) ==
    IF text = <<>> THEN <<>>
    ELSE IF Head(text) = word THEN Tail(text)
    ELSE <<Head(text)>> \o removeFirst(Tail(text), word)

\* .replace(/^[\s-]+/, ''): leading blanks and hyphens are taken out
RECURSIVE dropLeading(_)
dropLeading(text) ==
    IF text # <<>> /\ Head(text) \in {" ", "-"} THEN dropLeading(Tail(text)) ELSE text

\* lines 227-231: the name, the text of the cell without the CNPJ
nomeOf(row) ==
    IF row.cnpj # "" THEN dropLeading(removeFirst(row.fullText, row.cnpj))
    ELSE row.fullText

\* the number a run of digits stands for
RECURSIVE numberOf(_, _)
numberOf(digits, acc) ==
    IF digits = <<>> THEN acc
    ELSE numberOf(Tail(digits),
                  10 * acc + (CHOOSE n \in 0..9 : ToString(n) = Head(digits)))

NaN == [nan |-> TRUE, cents |-> 0]

\* line 236: parseFloat(valorStr.replace(/\./g, '').replace(',', '.')), the
\* number counted in hundredths; valorStr is a sequence of characters
parseValor(valorStr) ==
    LET plain == SelectSeq(valorStr, LAMBDA c : c # ".")
        whole == leadingDigits(plain)
        rest == SubSeq(plain, Len(whole) + 1, Len(plain))
        frac == IF rest # <<>> /\ Head(rest) = "," THEN leadingDigits(Tail(rest)) ELSE <<>>
        hundredths == SubSeq(frac \o <<"0", "0">>, 1, 2)
    IN  IF whole = <<>> THEN NaN
        ELSE [nan |-> FALSE, cents |-> 100 * numberOf(whole, 0) + numberOf(hundredths, 0)]

\* lines 223-247: the item pushed for a row that has a key
rowItem(row) ==
    [data |-> row.data,
     emitidoPara |-> [cnpj |-> row.cnpj, nome |-> nomeOf(row)],
     competencia |-> row.competencia,
     municipioEmissor |-> row.municipioEmissor,
     valor |-> parseValor(row.valor),
     status |-> IF row.situacao = None THEN "" ELSE row.situacao[1],
     chave |-> rowChave(row)]

\* mutant: a row without a key is pushed as well
RECURSIVE scrape_NoSkip(_)
scrape_NoSkip(rows) ==
    IF rows = <<>> THEN <<>>
    ELSE <<rowItem(Head(rows))>> \o scrape_NoSkip(Tail(rows))

\* mutant: the rows of a page are taken last to first
RECURSIVE scrape_Reversed(_)
scrape_Reversed(rows) ==
    IF rows = <<>> THEN <<>>
    ELSE IF rowChave(rows[Len(rows)]) = <<>> THEN scrape_Reversed(SubSeq(rows, 1, Len(rows) - 1))
    ELSE <<rowItem(rows[Len(rows)])>> \o scrape_Reversed(SubSeq(rows, 1, Len(rows) - 1))

\* rows.each(...): the items of the rows of a page, in page order
RECURSIVE scrape(_)
scrape(rows) ==
    IF rows = <<>> THEN <<>>
    ELSE IF rowChave(Head(rows)) = <<>> THEN scrape(Tail(rows))
    ELSE <<rowItem(Head(rows))>> \o scrape(Tail(rows))

digit(n) == CHOOSE d \in Digits : d = ToString(n)

\* a table row: its anchor and the text of its cells, trimmed
FilledRow(href, data) ==
    [href |-> href, data |-> data, cnpj |-> "12.345.678/0001-90",
     fullText |-> <<"12.345.678/0001-90", " ", "-", " ", "Tomador", " ", "Ltda">>,
     competencia |-> "02/2026", municipioEmissor |-> "Sao Paulo",
     valor |-> <<"1", ".", "5", "0", "0", ",", "5", "0">>, situacao |-> Some("GERADA")]

EmptyRow(href) ==
    [href |-> href, data |-> <<>>, cnpj |-> "", fullText |-> <<>>,
     competencia |-> "", municipioEmissor |-> "", valor |-> <<>>, situacao |-> None]

\* the rows the portal may render for the k-th window
NoteRow(k, i) == FilledRow(Some(DownloadPath \o << <<digit(k), digit(i)>> >>), <<k, i>>)
HeaderRow == EmptyRow(None)
BrokenRow(k) == FilledRow(Some(DownloadPath \o << <<"x", digit(k)>> >>), <<k, 0>>)
\* a row that has the anchor and nothing in its cells
BareRow(k) == EmptyRow(Some(DownloadPath \o << <<digit(k), "9">> >>))
\* a note of no value
ZeroRow(k) ==
    [NoteRow(k, 8) EXCEPT !.valor = <<"0", ",", "0", "0">>]

Pages(k) ==
    { <<>>,
      <<NoteRow(k, 1)>>,
      <<HeaderRow, NoteRow(k, 1), BrokenRow(k), BareRow(k), ZeroRow(k)>> }

(***************************************************************************)
(* Responses to the GET of a listing window or of a document.              *)
(*   responseUrl  response.request?.res?.responseUrl, None when undefined  *)
(*   location     the Location header                                      *)
(*   data         the body: the rows of the page it parses to, or a body   *)
(*                that the parser refuses                                  *)
(***************************************************************************)
Html(rows) == [parses |-> TRUE, rows |-> rows]
Unparsable == [parses |-> FALSE, rows |-> <<>>]

ListingUrl == <<"www.nfse.gov.br", "EmissorNacional", "Notas", "Emitidas">>
LoginUrl == <<"www.nfse.gov.br">> \o LoginPath

GetStatuses == {200, 302, 404}
ResponseUrls == {None, Some(ListingUrl), Some(LoginUrl)}
RedirectLocations == {None, Some(<<>>), Some(LoginPath \o <<"ReturnUrl">>), Some(DashboardPath)}

\* no response at all
Unanswered(nobody) ==
    [net |-> "fail", status |-> 0, responseUrl |-> None, location |-> None,
     data |-> nobody]

GetResponses(bodies, nobody) ==
    {Unanswered(nobody)} \cup
    [net : {"ok"}, status : GetStatuses, responseUrl : ResponseUrls,
     location : RedirectLocations, data : bodies \cup {nobody}]

\* lines 127-128: responseUrl.includes('/EmissorNacional/Login')
urlIsLogin(resp) ==
    resp.responseUrl # None /\ includes(resp.responseUrl[1], LoginPath)

\* lines 132-133: location && location.includes('/EmissorNacional/Login')
locationIsLogin(resp) ==
    resp.location # None /\ resp.location[1] # <<>> /\ includes(resp.location[1], LoginPath)

\* mutant: the Location header is not looked at
checkAuthentication_UrlOnly(resp) == urlIsLogin(resp)

\* checkAuthentication throws UnauthenticatedSessionException
checkAuthentication(resp) == urlIsLogin(resp) \/ locationIsLogin(resp)

(***************************************************************************)
(* buscar_nfse.                                                            *)
(***************************************************************************)
ChunkDays == 29

\* line 176: const end = new Date(data_fim)
end == data_fim

\* lines 180-185
nextChunkEnd(start, last) ==
    IF addDays(start, ChunkDays) > last THEN last ELSE addDays(start, ChunkDays)

\* mutant: the next window starts where the last one ended
nextStart_SameInstant(chunk) == chunk

\* lines 259-260
nextStart(chunk) == addDays(chunk, 1)

\* mutant: the catch block rethrows whatever it caught
rethrows_Everything(error) == TRUE

\* lines 250-252: the catch block rethrows
rethrows(error) == IsUnauthenticated(error)

\* What one pass of the try block (lines 187-248) ends in, given the response:
\* the items it pushed, and the error it threw if any.
AxiosError == [kind |-> "Error", message |-> <<"AxiosError">>]
ParseError == [kind |-> "Error", message |-> <<"ParseError">>]

\* mutant: the rows of a response are pushed before its status is looked at
tryWindow_PushesFirst(resp) ==
    IF axiosRejects(resp)
    THEN [threw |-> TRUE, error |-> AxiosError, items |-> scrape(resp.data.rows)]
    ELSE IF checkAuthentication(resp)
    THEN [threw |-> TRUE, error |-> UnauthenticatedSessionException, items |-> <<>>]
    ELSE IF ~resp.data.parses
    THEN [threw |-> TRUE, error |-> ParseError, items |-> <<>>]
    ELSE [threw |-> FALSE, error |-> ParseError, items |-> scrape(resp.data.rows)]

tryWindow(resp) ==
    IF axiosRejects(resp) THEN [threw |-> TRUE, error |-> AxiosError, items |-> <<>>]
    ELSE IF checkAuthentication(resp)
    THEN [threw |-> TRUE, error |-> UnauthenticatedSessionException, items |-> <<>>]
    ELSE IF ~resp.data.parses
    THEN [threw |-> TRUE, error |-> ParseError, items |-> <<>>]
    ELSE [threw |-> FALSE, error |-> ParseError, items |-> scrape(resp.data.rows)]

\* lines 174-177: buscar_nfse(cookies, from, to) entered
CrawlCalled(from, to) ==
    /\ data_inicio = from
    /\ data_fim = to
    /\ currentStart = data_inicio
    /\ chunkEnd = data_inicio
    /\ allNfses = <<>>
    /\ cpc = "loop"
    /\ windows = <<>>
    /\ cresult = None

\* the days data_fim is drawn from: those around the places where a window
\* that began on day 0..MaxStartDay ends and the next one begins
EndDays ==
    {d \in 0..MaxDay : \/ d % (ChunkDays + 1) <= MaxStartDay + 1
                       \/ d % (ChunkDays + 1) >= ChunkDays - 1}

InitCrawl ==
    \E from \in {Date(d, t) : d \in 0..MaxStartDay, t \in 0..(TicksPerDay - 1)},
       to \in {Date(d, t) : d \in EndDays, t \in 0..(TicksPerDay - 1)} :
        CrawlCalled(from, to)

\* lines 179-200: the loop test passed, the window is cut and requested
RequestWindow ==
    /\ cpc = "loop"
    /\ currentStart <= end
    /\ chunkEnd' = nextChunkEnd(currentStart, end)
    /\ windows' = Append(windows,
           [start |-> currentStart, end |-> chunkEnd',
            datainicio |-> formatDate(currentStart), datafim |-> formatDate(chunkEnd'),
            result |-> "pending", delivered |-> FALSE, urlLogin |-> FALSE,
            locationLogin |-> FALSE, page |-> <<>>])
    /\ cpc' = "await"
    /\ UNCHANGED <<data_inicio, data_fim, currentStart, allNfses, cresult>>

\* lines 200-260: the response arrives, the page is scraped or the error handled
WindowAnswered ==
    /\ cpc = "await"
    /\ \E resp \in GetResponses({Html(rows) : rows \in Pages(Len(windows))}, Unparsable) :
         LET t == tryWindow(resp)
             entry == [windows[Len(windows)] EXCEPT
                          !.delivered = resp.net = "ok" /\ resp.status \in 200..399,
                          !.urlLogin = urlIsLogin(resp),
                          !.locationLogin = locationIsLogin(resp),
                          !.page = IF t.threw THEN <<>> ELSE resp.data.rows,
                          !.result = IF ~t.threw THEN "ok"
                                     ELSE IF rethrows(t.error) THEN "thrown"
                                     ELSE "caught"]
         IN  /\ windows' = [windows EXCEPT ![Len(windows)] = entry]
             /\ allNfses' = allNfses \o t.items
             /\ IF t.threw /\ rethrows(t.error)
                THEN /\ cresult' = Some(Threw(t.error))
                     /\ cpc' = "done"
                     /\ UNCHANGED currentStart
                ELSE /\ currentStart' = nextStart(chunkEnd)
                     /\ cpc' = "loop"
                     /\ UNCHANGED cresult
    /\ UNCHANGED <<data_inicio, data_fim, chunkEnd>>

\* line 263: the loop test failed
CrawlReturns ==
    /\ cpc = "loop"
    /\ ~(currentStart <= end)
    /\ cresult' = Some(Returned(allNfses))
    /\ cpc' = "done"
    /\ UNCHANGED <<data_inicio, data_fim, currentStart, chunkEnd, allNfses, windows>>

(***************************************************************************)
(* The tree that xml2js parses a document to (src/nfse.ts, getNested).     *)
(***************************************************************************)
Str(text) == [t |-> "str", text |-> text]
Arr(items) == [t |-> "arr", items |-> items]
Obj(fields) == [t |-> "obj", fields |-> fields]
Nul == [t |-> "null"]
Undefined == [t |-> "undefined"]

\* !value
falsy(v) == v.t \in {"null", "undefined"} \/ v = Str("")

\* value === null || value === undefined
nullish(v) == v.t \in {"null", "undefined"}

\* value[0] of an array
first(v) == IF v.items = <<>> THEN Undefined ELSE v.items[1]

\* value[part] of a value that is neither null nor undefined; part is a field
\* name, never an index nor "length"
member(v, part) ==
    IF v.t = "obj" /\ part \in DOMAIN v.fields THEN v.fields[part] ELSE Undefined

TypeError == [kind |-> "Error", message |-> <<"TypeError">>]

\* lines 273-287: the loop over the parts and the final unwrapping
RECURSIVE walk(_, _)
walk(current, parts) ==
    IF parts = <<>>
    THEN LET last == IF current.t = "arr" THEN first(current) ELSE current
         IN  Returned(IF nullish(last) THEN Nul ELSE last)
    ELSE IF nullish(current) THEN Returned(Nul)
    ELSE LET node == IF current.t = "arr" THEN first(current) ELSE current
         IN  IF nullish(node) THEN Threw(TypeError)
             ELSE walk(member(node, Head(parts)), Tail(parts))

\* getNested(obj, path); path is the sequence of its dot-separated parts, <<>>
\* for ''
getNested(obj, path) ==
    IF falsy(obj) THEN Returned(Nul)
    ELSE IF path = <<>> THEN Returned(obj)
    ELSE walk(obj, path)

(***************************************************************************)
(* SpecNested: one call of getNested.  The trees are built of strings,     *)
(* mappings, sequences and null, two levels below the root.                *)
(***************************************************************************)
EmptyObj == Obj([k \in {} |-> Nul])

TreeLeaves == {Nul, Str("x"), Str(""), Arr(<<>>), EmptyObj}

TreeNodes ==
    TreeLeaves
    \cup {Arr(<<v>>) : v \in TreeLeaves}
    \cup {Obj([b |-> v]) : v \in TreeLeaves}
    \cup {Arr(<<Obj([b |-> v])>>) : v \in TreeLeaves}

NestedTrees == TreeNodes \cup {Obj([a |-> v]) : v \in TreeNodes}

NestedPaths == {<<>>, <<"a">>, <<"b">>, <<"a", "b">>, <<"a", "b", "c">>}

NestedCalled(obj, path) ==
    gn = [pc |-> "start", obj |-> obj, path |-> path, result |-> Returned(Nul)]

InitNested == \E obj \in NestedTrees, path \in NestedPaths : NestedCalled(obj, path)

\* lines 266-288
GetNested ==
    /\ gn.pc = "start"
    /\ gn' = [gn EXCEPT !.pc = "done", !.result = getNested(gn.obj, gn.path)]

(***************************************************************************)
(* formatNfseResult (src/nfse.ts).                                         *)
(***************************************************************************)
CabecalhoPaths ==
    [id |-> <<"$", "Id">>, municipio_emissor |-> <<"xLocEmi">>,
     municipio_prestacao |-> <<"xLocPrestacao">>, numero_nfse |-> <<"nNFSe">>,
     codigo_municipio_incidencia |-> <<"cLocIncid">>,
     municipio_incidencia |-> <<"xLocIncid">>, tributacao_nacional |-> <<"xTribNac">>,
     nbs |-> <<"xNBS">>, versao_aplicativo |-> <<"verAplic">>,
     ambiente_gerador |-> <<"ambGer">>, tipo_emissao |-> <<"tpEmis">>,
     processo_emissao |-> <<"procEmi">>, status_emissao |-> <<"cStat">>,
     data_hora_processamento |-> <<"dhProc">>, numero_documento_municipal |-> <<"nDFSe">>]

EmitentePaths ==
    [cnpj |-> <<"emit", "CNPJ">>, inscricao_municipal |-> <<"emit", "IM">>,
     razao_social |-> <<"emit", "xNome">>, telefone |-> <<"emit", "fone">>,
     email |-> <<"emit", "email">>]

EmitenteEnderecoPaths ==
    [logradouro |-> <<"emit", "enderNac", "xLgr">>, numero |-> <<"emit", "enderNac", "nro">>,
     bairro |-> <<"emit", "enderNac", "xBairro">>,
     codigo_municipio |-> <<"emit", "enderNac", "cMun">>,
     uf |-> <<"emit", "enderNac", "UF">>, cep |-> <<"emit", "enderNac", "CEP">>]

ValoresPaths ==
    [base_calculo |-> <<"valores", "vBC">>, aliquota |-> <<"valores", "pAliqAplic">>,
     issqn |-> <<"valores", "vISSQN">>, total_retencoes |-> <<"valores", "vTotalRet">>,
     valor_liquido |-> <<"valores", "vLiq">>, valor_deducao |-> <<"valores", "vCalcDR">>]

DpsPaths ==
    [id |-> <<"$", "Id">>, tipo_ambiente |-> <<"tpAmb">>, data_emissao |-> <<"dhEmi">>,
     numero_dps |-> <<"nDPS">>, serie |-> <<"serie">>, competencia |-> <<"dCompet">>,
     tipo_emitente |-> <<"tpEmit">>, local_emissao |-> <<"cLocEmi">>]

PrestadorPaths ==
    [cnpj |-> <<"prest", "CNPJ">>, inscricao_municipal |-> <<"prest", "IM">>]

TomadorPaths ==
    [cnpj |-> <<"toma", "CNPJ">>, cpf |-> <<"toma", "CPF">>,
     razao_social |-> <<"toma", "xNome">>]

TomadorEnderecoPaths ==
    [logradouro |-> <<"toma", "end", "xLgr">>, numero |-> <<"toma", "end", "nro">>,
     bairro |-> <<"toma", "end", "xBairro">>,
     codigo_municipio |-> <<"toma", "end", "endNac", "cMun">>,
     cep |-> <<"toma", "end", "endNac", "CEP">>]

ServicoPaths ==
    [codigo_tributacao_nacional |-> <<"serv", "cServ", "cTribNac">>,
     descricao |-> <<"serv", "cServ", "xDescServ">>, nbs |-> <<"serv", "cServ", "cNBS">>,
     local_prestacao |-> <<"serv", "locPrest", "cLocPrestacao">>]

ValoresDpsPaths ==
    [valor_servico |-> <<"valores", "vServPrest", "vServ">>]

\* the fields of one sub-record, read from node along their paths
fieldsOf(node, paths) == [f \in DOMAIN paths |-> getNested(node, paths[f]).value]

\* some read along these paths throws
readThrows(node, paths) == \E f \in DOMAIN paths : ~getNested(node, paths[f]).ok

\* nfseObj?.NFSe?.infNFSe
optionalMember(v, part) == IF nullish(v) THEN Undefined ELSE member(v, part)

\* line 295
lacksRoot(xmlObj) == falsy(optionalMember(optionalMember(xmlObj, "NFSe"), "infNFSe"))

\* lines 348-382
formatDps(dps) ==
    [main |-> fieldsOf(dps, DpsPaths),
     prestador |-> fieldsOf(dps, PrestadorPaths),
     tomador |-> fieldsOf(dps, TomadorPaths),
     tomador_endereco |-> fieldsOf(dps, TomadorEnderecoPaths),
     servico |-> fieldsOf(dps, ServicoPaths),
     valores_dps |-> fieldsOf(dps, ValoresDpsPaths)]

RawDetail(xmlObj, xmlPath) ==
    [shape |-> "raw", raw |-> Some(xmlObj), xml_path |-> xmlPath,
     cabecalho |-> <<>>, emitente |-> <<>>, emitente_endereco |-> <<>>,
     valores |-> <<>>, dps |-> None]

formatNfseResult(xmlObj, xmlPath) ==
    IF lacksRoot(xmlObj) THEN Returned(RawDetail(xmlObj, xmlPath))
    ELSE LET infR == getNested(xmlObj, <<"NFSe", "infNFSe">>)
             inf == infR.value
             dpsR == getNested(inf, <<"DPS", "infDPS">>)
             dps == dpsR.value
             head == {CabecalhoPaths, EmitentePaths, EmitenteEnderecoPaths, ValoresPaths}
             decl == {DpsPaths, PrestadorPaths, TomadorPaths, TomadorEnderecoPaths,
                      ServicoPaths, ValoresDpsPaths}
         IN  IF ~infR.ok \/ (\E paths \in head : readThrows(inf, paths)) \/ ~dpsR.ok
             THEN Threw(TypeError)
             ELSE IF ~falsy(dps) /\ \E paths \in decl : readThrows(dps, paths)
             THEN Threw(TypeError)
             ELSE Returned(
                 [shape |-> "detail", raw |-> None, xml_path |-> xmlPath,
                  cabecalho |-> fieldsOf(inf, CabecalhoPaths),
                  emitente |-> fieldsOf(inf, EmitentePaths),
                  emitente_endereco |-> fieldsOf(inf, EmitenteEnderecoPaths),
                  valores |-> fieldsOf(inf, ValoresPaths),
                  dps |-> IF falsy(dps) THEN None ELSE Some(formatDps(dps))])

(***************************************************************************)
(* get_nfse and get_nfse_pdf (src/nfse.ts), store_file (storage_utils.ts). *)
(***************************************************************************)
\* documents the portal may send, as the tree xml2js parses them to
Leaf(text) == Arr(<<Str(text)>>)

DpsTree ==
    Obj(("$" :> Obj([Id |-> Str("DPS1")]))
        @@ [dhEmi |-> Leaf("2026-02-01"),
            toma |-> Arr(<<Obj([CPF |-> Leaf("111"), xNome |-> Leaf("Tomador")])>>)])

InfTree(extra) ==
    Obj(("$" :> Obj([Id |-> Str("NFS1")]))
        @@ [nNFSe |-> Leaf("10"), valores |-> Arr(<<Obj([vLiq |-> Leaf("100.00")])>>)]
        @@ extra)

Document(inf) == Obj([NFSe |-> Obj([infNFSe |-> Arr(<<inf>>)])])

Trees ==
    { Nul,
      Obj([html |-> Arr(<<Str("manutencao")>>)]),
      Obj([NFSe |-> Obj([versao |-> Str("1.00")])]),
      Document(InfTree([emit |-> Arr(<<Obj([CNPJ |-> Leaf("123")])>>)])),
      Document(InfTree([emit |-> Arr(<<Obj([CNPJ |-> Leaf("123")])>>),
                        DPS |-> Arr(<<Obj([infDPS |-> Arr(<<DpsTree>>)])>>)])),
      Document(InfTree([emit |-> Arr(<<>>)])) }

(***************************************************************************)
(* SpecFormat: one call of formatNfseResult.  The trees have the roots     *)
(* absent or present and, below them, elements missing, empty sequences,   *)
(* strings in the place of mappings, leaves with attributes or children,   *)
(* and the declaration present or absent.                                  *)
(***************************************************************************)
\* <fone tipo="fixo">1133334444</fone> as xml2js parses it
LeafWithAttribute(text) == Arr(<<Obj(("_" :> Str(text)) @@ ("$" :> Obj([tipo |-> Str("fixo")])))>>)

EmitVariants ==
    { EmptyObj,                                                   \* no emit
      Obj([emit |-> Arr(<<Obj([CNPJ |-> Leaf("123"), fone |-> Leaf("1133334444")])>>)]),
      Obj([emit |-> Arr(<<Obj([CNPJ |-> Leaf("123"),
                              fone |-> LeafWithAttribute("1133334444")])>>)]),
      Obj([emit |-> Arr(<<Obj([CNPJ |-> Leaf("123"),
                              fone |-> Arr(<<Obj([ddd |-> Leaf("11")])>>)])>>)]),
      Obj([emit |-> Leaf("texto")]),                              \* a string
      Obj([emit |-> Arr(<<>>)]) }                                 \* empty sequence

DpsVariants ==
    { EmptyObj,                                                   \* no declaration
      Obj([DPS |-> Arr(<<Obj([infDPS |-> Arr(<<DpsTree>>)])>>)]),
      Obj([DPS |-> Arr(<<Obj([infDPS |-> Arr(<<Obj([toma |-> Leaf("texto")])>>)])>>)]),
      Obj([DPS |-> Arr(<<Obj([infDPS |-> Arr(<<Obj([toma |-> Arr(<<>>)])>>)])>>)]),
      Obj([DPS |-> Leaf("texto")]),
      Obj([DPS |-> Arr(<<>>)]) }

Rootless ==
    { Nul,
      EmptyObj,
      Obj([html |-> Arr(<<Str("manutencao")>>)]),
      Obj([NFSe |-> Str("texto")]),
      Obj([NFSe |-> Obj([versao |-> Str("1.00")])]),
      Obj([NFSe |-> Obj([infNFSe |-> Nul])]) }

FormatTrees ==
    Rootless
    \cup {Document(InfTree(e.fields @@ d.fields)) : e \in EmitVariants, d \in DpsVariants}
    \cup { Document(Str("texto")),
           Document(EmptyObj),
           Obj([NFSe |-> Obj([infNFSe |-> Arr(<<>>)])]),
           Obj([NFSe |-> Obj([infNFSe |-> InfTree(EmptyObj.fields)])]) }

XmlPaths == {<<"storage", "uuid-1", ".xml">>, <<"storage", "uuid-2", ".xml">>}

FormatCalled(xmlObj) ==
    fm = [pc |-> "start", xmlObj |-> xmlObj, xmlPath |-> <<>>, result |-> Returned(Nul)]

InitFormat == \E xmlObj \in FormatTrees : FormatCalled(xmlObj)

\* lines 290-386, called with the path store_file returned
FormatNfseResult ==
    /\ fm.pc = "start"
    /\ \E xmlPath \in XmlPaths :
           fm' = [fm EXCEPT !.pc = "done", !.xmlPath = xmlPath,
                            !.result = formatNfseResult(fm.xmlObj, xmlPath)]

Xml(tree) == [parses |-> TRUE, tree |-> tree]
Malformed == [parses |-> FALSE, tree |-> Nul]

Keys == {"123456", "987654"}

\* store_file(body, ext); writable tells whether fs.writeFileSync succeeds
store_file(ext, writable) ==
    IF writable THEN Returned(<<"storage", "uuid", ext>>)
    ELSE Threw(ApplicationException(<<"Falha ao salvar arquivo", "EACCES">>))

FetchPrefix(fn) ==
    IF fn = "get_nfse" THEN "Falha ao obter NFSe" ELSE "Falha ao obter PDF da NFSe"

\* mutant: the catch block wraps whatever it caught
wrapsError_Everything(error) == TRUE

\* lines 410-414 and 435-439: the catch block wraps all but the
\* authentication failure
wrapsError(error) == ~IsUnauthenticated(error)

\* the catch block of get_nfse and get_nfse_pdf
caught(fn, key, error) ==
    IF wrapsError(error)
    THEN Threw(ApplicationException(<<FetchPrefix(fn), key>> \o error.message))
    ELSE Threw(error)

\* mutant: the tree is normalized before the document is stored
get_nfse_NormalizeFirst(key, resp, writable) ==
    IF axiosRejects(resp) THEN caught("get_nfse", key, AxiosError)
    ELSE IF checkAuthentication(resp)
    THEN caught("get_nfse", key, UnauthenticatedSessionException)
    ELSE IF ~resp.data.parses THEN caught("get_nfse", key, ParseError)
    ELSE LET formatted == formatNfseResult(resp.data.tree, <<"storage", "uuid", ".xml">>)
         IN  IF ~formatted.ok THEN caught("get_nfse", key, formatted.error)
             ELSE IF ~store_file(".xml", writable).ok
             THEN caught("get_nfse", key, store_file(".xml", writable).error)
             ELSE formatted

\* lines 395-408: the try block of get_nfse
get_nfse(key, resp, writable) ==
    IF axiosRejects(resp) THEN caught("get_nfse", key, AxiosError)
    ELSE IF checkAuthentication(resp)
    THEN caught("get_nfse", key, UnauthenticatedSessionException)
    ELSE IF ~resp.data.parses THEN caught("get_nfse", key, ParseError)
    ELSE IF ~store_file(".xml", writable).ok
    THEN caught("get_nfse", key, store_file(".xml", writable).error)
    ELSE LET formatted == formatNfseResult(resp.data.tree, store_file(".xml", writable).value)
         IN  IF formatted.ok THEN formatted ELSE caught("get_nfse", key, formatted.error)

\* lines 422-433: the try block of get_nfse_pdf
get_nfse_pdf(key, resp, writable) ==
    IF axiosRejects(resp) THEN caught("get_nfse_pdf", key, AxiosError)
    ELSE IF checkAuthentication(resp)
    THEN caught("get_nfse_pdf", key, UnauthenticatedSessionException)
    ELSE IF ~store_file(".pdf", writable).ok
    THEN caught("get_nfse_pdf", key, store_file(".pdf", writable).error)
    ELSE store_file(".pdf", writable)

\* store_file is reached: the request was answered, the session was not found
\* expired and, in get_nfse, the body was parsed
reachesStore(fn, resp) ==
    /\ ~axiosRejects(resp)
    /\ ~checkAuthentication(resp)
    /\ fn = "get_nfse" => resp.data.parses

DetailCalled(fn, key) ==
    dt = [pc |-> "start", fn |-> fn, key |-> key, requests |-> 0, resp |-> Unanswered(Malformed),
          writable |-> TRUE, stores |-> 0, result |-> Returned(<<>>)]

InitDetail == \E fn \in {"get_nfse", "get_nfse_pdf"}, key \in Keys : DetailCalled(fn, key)

\* lines 396 and 423: the GET is issued
DetailRequest ==
    /\ dt.pc = "start"
    /\ dt' = [dt EXCEPT !.pc = "await", !.requests = @ + 1]

\* the response arrives and the rest of the function runs
DetailAnswered ==
    /\ dt.pc = "await"
    /\ \E resp \in GetResponses({Xml(tree) : tree \in Trees}, Malformed),
          writable \in BOOLEAN :
         dt' = [dt EXCEPT
                   !.pc = "done",
                   !.resp = resp,
                   !.writable = writable,
                   !.stores = IF reachesStore(dt.fn, resp) THEN @ + 1 ELSE @,
                   !.result = IF dt.fn = "get_nfse"
                              THEN get_nfse(dt.key, resp, writable)
                              ELSE get_nfse_pdf(dt.key, resp, writable)]

(***************************************************************************)
(* The tool handlers (index.ts, createMcpServer).  SpecTool: one call of   *)
(* one handler; withAutoLogin settles with any of the values and errors    *)
(* that ensureAuthenticated, login and the core functions produce.         *)
(***************************************************************************)
ToolNames == {"nfse_buscar", "nfse_detalhes", "nfse_pdf"}

\* lines 121, 147, 173: the core function the handler passes to withAutoLogin
coreOf(tool) ==
    IF tool = "nfse_buscar" THEN "buscar_nfse"
    ELSE IF tool = "nfse_detalhes" THEN "get_nfse"
    ELSE "get_nfse_pdf"

\* lines 132, 158, 184
ErrorPrefix(tool) ==
    IF tool = "nfse_buscar" THEN "Erro ao buscar NFSe"
    ELSE IF tool = "nfse_detalhes" THEN "Erro ao obter detalhes da NFSe"
    ELSE "Erro ao baixar PDF da NFSe"

IsoDates == {"2026-02-01", "2026-02-10"}
DateStrings == IsoDates \cup {"01/02/2026", ""}

\* isNaN(new Date(`${text}T00:00:00`).getTime())
invalidDate(text) == text \notin IsoDates

ToolArgs(tool) ==
    IF tool = "nfse_buscar"
    THEN [data_inicio : DateStrings, data_fim : DateStrings, chave : {""}]
    ELSE [data_inicio : {""}, data_fim : {""}, chave : Keys]

\* what withAutoLogin can resolve with, per core function
CoreValues(tool) ==
    IF tool = "nfse_buscar" THEN {<<>>, <<"nota", "nota">>}
    ELSE IF tool = "nfse_detalhes" THEN {<<"detail">>, <<"raw">>}
    ELSE {<<"storage", "uuid", ".pdf">>}

\* fs.readFileSync (line 72) failing: an Error that is no ApplicationException
ReadError == [kind |-> "Error", message |-> <<"EACCES">>]

\* a rejection with a value that is no Error
ThrownValue == [kind |-> "value", message |-> <<"rejected">>]

\* what withAutoLogin can reject with
Rejections ==
    {ApplicationException(configError(e)[1]) : e \in {x \in Envs : configError(x) # None}}
    \cup {login(r).error : r \in {x \in Responses({<<1>>}) : ~login(x).ok}}
    \cup {ensureAfterLogin(Returned(<<>>)).error}
    \cup {ActionError(k) : k \in {"UnauthenticatedSessionException", "ApplicationException"}}
    \cup {ReadError, ThrownValue}

WithAutoLoginOutcomes(tool) ==
    {Returned(v) : v \in CoreValues(tool)} \cup {Threw(e) : e \in Rejections}

\* error instanceof Error ? error.message : String(error)
messageOf(error) == error.message

Payload(isError, text) == [isError |-> isError, text |-> text]

\* mutant: the handler catches ApplicationException only
handlerCatches_OnlyApplication(error) == IsApplicationException(error)

\* catch (error: unknown): every rejection is caught
handlerCatches(error) == TRUE

\* lines 123-135, 149-161, 175-187: the handler once withAutoLogin settled
handled(tool, o) ==
    IF o.ok THEN Returned(Payload(FALSE, <<"json", o.value>>))
    ELSE IF handlerCatches(o.error)
    THEN Returned(Payload(TRUE, <<ErrorPrefix(tool)>> \o messageOf(o.error)))
    ELSE Threw(o.error)

ToolCalled(tool, args) ==
    th = [pc |-> "start", tool |-> tool, args |-> args, calls |-> 0, core |-> None,
          settled |-> None, result |-> Returned(Payload(FALSE, <<>>))]

InitTool == \E tool \in ToolNames : \E args \in ToolArgs(tool) : ToolCalled(tool, args)

\* the handler up to its await (lines 110-121, 146-147, 172-173)
HandlerStarts ==
    /\ th.pc = "start"
    /\ IF th.tool = "nfse_buscar"
          /\ (invalidDate(th.args.data_inicio) \/ invalidDate(th.args.data_fim))
       THEN th' = [th EXCEPT !.pc = "done",
                     !.result = Returned(Payload(TRUE,
                         <<"Datas invalidas. Use o formato YYYY-MM-DD.">>))]
       ELSE th' = [th EXCEPT !.pc = "await", !.calls = @ + 1,
                             !.core = Some(coreOf(th.tool))]

\* withAutoLogin settles and the handler returns
HandlerSettles ==
    /\ th.pc = "await"
    /\ \E o \in WithAutoLoginOutcomes(th.tool) :
           th' = [th EXCEPT !.pc = "done", !.settled = Some(o),
                            !.result = handled(th.tool, o)]

(***************************************************************************)
(* SpecJobs: two calls of the core functions (src/nfse.ts) in progress at  *)
(* once, each with the session it was handed.  The portal answers a        *)
(* request by the Cookie header it carries: the account's data when the    *)
(* header is one it accepts, the redirect to the login page otherwise.     *)
(***************************************************************************)
JobIds == {1, 2}
CoreNames == {"buscar_nfse", "get_nfse", "get_nfse_pdf"}

\* the cookie arrays of two sessions held independently
JobSessions == << <<"a1", "a2">>, <<"b1">> >>

\* cookies.join('; ')
RECURSIVE join(_)
join(cookieArray) ==
    IF cookieArray = <<>> THEN <<>>
    ELSE IF Len(cookieArray) = 1 THEN cookieArray
    ELSE <<Head(cookieArray), "; ">> \o join(Tail(cookieArray))

\* mutant: the header is built from the process-wide cache when there is one
cookieHeader_FromCache(cookieArray, cache) ==
    IF cache = None THEN join(cookieArray) ELSE join(cache[1].cookies)

\* lines 177, 392, 419: const cookieHeader = cookies.join('; '); the module
\* state of index.ts is not in scope of nfse.ts
cookieHeader(cookieArray, cache) == join(cookieArray)

\* the account a Cookie header belongs to
accountOf(header) == CHOOSE a \in JobIds : join(JobSessions[a]) = header

NoBody == [parses |-> FALSE, rows |-> <<>>, tree |-> Nul]

\* the body the portal serves to an account
bodyFor(account, fn, n) ==
    IF fn = "buscar_nfse"
    THEN [parses |-> TRUE, rows |-> <<NoteRow(account, n)>>, tree |-> Nul]
    ELSE [parses |-> TRUE, rows |-> <<>>,
          tree |-> Document(InfTree([emit |-> Arr(<<Obj([CNPJ |-> Leaf(ToString(account))])>>)]))]

portalAnswer(live, header, fn, n) ==
    IF header \in live
    THEN [net |-> "ok", status |-> 200, responseUrl |-> Some(ListingUrl),
          location |-> None, data |-> bodyFor(accountOf(header), fn, n)]
    ELSE [net |-> "ok", status |-> 302, responseUrl |-> None,
          location |-> Some(LoginPath \o <<"ReturnUrl">>), data |-> NoBody]

Job(fn, cookieArray) ==
    [fn |-> fn, cookies |-> cookieArray, pc |-> "start", window |-> 1, sent |-> None,
     allNfses |-> <<>>, overlapped |-> FALSE, result |-> None]

JobsCalled(live, fn1, fn2) ==
    jobs = [live |-> live,
            of |-> [j \in JobIds |-> Job(IF j = 1 THEN fn1 ELSE fn2, JobSessions[j])]]

InitJobs ==
    \E live \in SUBSET {join(JobSessions[j]) : j \in JobIds}, fn1, fn2 \in CoreNames :
        JobsCalled(live, fn1, fn2)

\* axios.get is issued (lines 195, 396, 423)
JobRequests(j) ==
    /\ jobs.of[j].pc = "start"
    /\ jobs' = [jobs EXCEPT
           !.of[j].pc = "await",
           !.of[j].sent = Some(cookieHeader(jobs.of[j].cookies, cachedCookies)),
           !.of[j].overlapped = @ \/ \E k \in JobIds \ {j} :
                                        jobs.of[k].sent # None /\ jobs.of[k].pc # "done"]

\* the request settles and the function goes on to its next await or its end
JobAnswered(j) ==
    /\ jobs.of[j].pc = "await"
    /\ LET job == jobs.of[j]
           resp == portalAnswer(jobs.live, job.sent[1], job.fn, job.window)
           t == tryWindow(resp)
           items == IF t.threw THEN job.allNfses ELSE job.allNfses \o t.items
       IN  IF job.fn = "buscar_nfse"
           THEN IF t.threw /\ rethrows(t.error)
                THEN jobs' = [jobs EXCEPT !.of[j].pc = "done",
                                          !.of[j].result = Some(Threw(t.error))]
                ELSE IF job.window = JobWindows
                THEN jobs' = [jobs EXCEPT !.of[j].pc = "done", !.of[j].allNfses = items,
                                          !.of[j].result = Some(Returned(items))]
                ELSE jobs' = [jobs EXCEPT !.of[j].pc = "start", !.of[j].allNfses = items,
                                          !.of[j].window = @ + 1]
           ELSE jobs' = [jobs EXCEPT
                    !.of[j].pc = "done",
                    !.of[j].result = Some(IF job.fn = "get_nfse"
                                          THEN get_nfse("123456", resp, TRUE)
                                          ELSE get_nfse_pdf("123456", resp, TRUE))]

(***************************************************************************)
(* The streamable-HTTP server (index.ts, startStreamableHttp).  The session *)
(* id a transport generates is the transport's own number; sessions is the *)
(* set of keys of the map, the entry of key t referring to transport t.    *)
(***************************************************************************)
TransportIds == 1..MaxTransports
RequestIds == 1..HttpRequests
Methods == {"POST", "GET", "DELETE", "PUT"}

NoRequest ==
    [pc |-> "idle", method |-> "GET", sessionId |-> None, parses |-> TRUE,
     known |-> FALSE, transport |-> None, created |-> FALSE, answer |-> "none"]

\* line 204: const sessions = new Map(); no request received yet
HttpStarted ==
    http = [sessions |-> {},
            transports |-> [t \in TransportIds |-> [state |-> "new", sessionId |-> None]],
            reqs |-> [r \in RequestIds |-> NoRequest]]

\* line 226: sessionId && sessions.has(sessionId)
hasSession(sessions, sessionId) == sessionId # None /\ sessionId[1] \in sessions

\* lines 247-250: if (newSessionId) sessions.set(newSessionId, ...)
storedSession(sessions, transport) ==
    IF transport.sessionId # None THEN sessions \cup {transport.sessionId[1]} ELSE sessions

\* lines 237-243: the onclose handler
onclose(sessions, transport) ==
    IF transport.sessionId # None THEN sessions \ {transport.sessionId[1]} ELSE sessions

\* lines 206-223, 270-303: a request for /mcp arrives and its handler runs to
\* its first await or to its answer
Receive(r) ==
    /\ http.reqs[r].pc = "idle"
    /\ \E method \in Methods, sessionId \in {None} \cup {Some(t) : t \in TransportIds} :
       \E parses \in IF method = "POST" THEN BOOLEAN ELSE {TRUE} :
         LET req == [NoRequest EXCEPT !.method = method, !.sessionId = sessionId,
                                      !.parses = parses]
         IN  http' = [http EXCEPT !.reqs[r] =
                 IF method = "POST" THEN [req EXCEPT !.pc = "body"]
                 ELSE IF method \in {"GET", "DELETE"}
                 THEN IF hasSession(http.sessions, sessionId)
                      THEN [req EXCEPT !.pc = "handling", !.known = TRUE,
                                       !.transport = sessionId]
                      ELSE [req EXCEPT !.pc = "done", !.answer = "400"]
                 ELSE [req EXCEPT !.pc = "done", !.answer = "405"]]

\* lines 223-235, 251-269: the body of a POST was read; it is parsed and the
\* request routed
BodyRead(r) ==
    /\ http.reqs[r].pc = "body"
    /\ LET req == http.reqs[r]
           known == hasSession(http.sessions, req.sessionId)
       IN  IF ~req.parses
           THEN http' = [http EXCEPT !.reqs[r].pc = "done", !.reqs[r].known = known,
                                     !.reqs[r].answer = "500"]
           ELSE IF known
           THEN http' = [http EXCEPT !.reqs[r].pc = "handling", !.reqs[r].known = TRUE,
                                     !.reqs[r].transport = req.sessionId]
           ELSE IF req.sessionId = None
           THEN \E t \in TransportIds :
                  /\ http.transports[t].state = "new"
                  /\ \A u \in TransportIds : http.transports[u].state = "new" => t <= u
                  /\ http' = [http EXCEPT !.reqs[r].pc = "connecting",
                                          !.reqs[r].created = TRUE,
                                          !.reqs[r].transport = Some(t),
                                          !.transports[t].state = "created"]
           ELSE http' = [http EXCEPT !.reqs[r].pc = "done", !.reqs[r].answer = "400"]

\* lines 235-245: server.connect resolved, onclose is set and the request is
\* given to the new transport, which generates its session id if the message
\* is an initialize request
Connected(r) ==
    /\ http.reqs[r].pc = "connecting"
    /\ \E initialize \in BOOLEAN :
         LET t == http.reqs[r].transport[1]
         IN  http' = [http EXCEPT
                 !.reqs[r].pc = "initializing",
                 !.transports[t] = [state |-> "open",
                                    sessionId |-> IF initialize THEN Some(t) ELSE None]]

\* lines 245-250: transport.handleRequest resolved
Initialized(r) ==
    /\ http.reqs[r].pc = "initializing"
    /\ LET t == http.reqs[r].transport[1]
       IN  http' = [http EXCEPT
               !.reqs[r].pc = "done",
               !.reqs[r].answer = "transport",
               !.sessions = storedSession(http.sessions, http.transports[t])]

\* lines 228, 282, 295: the transport of the session handled the
\* request; a DELETE makes it close
Handled(r) ==
    /\ http.reqs[r].pc = "handling"
    /\ LET t == http.reqs[r].transport[1]
           closes == http.reqs[r].method = "DELETE" /\ http.transports[t].state = "open"
       IN  http' = [http EXCEPT
               !.reqs[r].pc = "done",
               !.reqs[r].answer = "transport",
               !.transports[t].state = IF closes THEN "closed" ELSE @,
               !.sessions = IF closes THEN onclose(@, http.transports[t]) ELSE @]

\* lines 237-243: a transport closes and its onclose handler runs
TransportCloses(t) ==
    /\ http.transports[t].state = "open"
    /\ http' = [http EXCEPT !.transports[t].state = "closed",
                            !.sessions = onclose(@, http.transports[t])]

(***************************************************************************)
(* Specifications.                                                         *)
(***************************************************************************)
\* the parts a specification is not about stay as they are here
EnvAtRest == [CERT_PASSWORD |-> TRUE, CERT_FILE |-> TRUE, pfxExists |-> TRUE]
RestOfAuth == AuthAtRest(EnvAtRest)
RestOfCrawl == CrawlCalled(Date(0, 0), Date(0, 0))
RestOfDetail == DetailCalled("get_nfse", "123456")
RestOfNested == NestedCalled(Nul, <<>>)
RestOfFormat == FormatCalled(Nul)
RestOfJobs == JobsCalled({}, "get_nfse_pdf", "get_nfse_pdf")
RestOfHttp == HttpStarted
RestOfTool == ToolCalled("nfse_pdf", [data_inicio |-> "", data_fim |-> "", chave |-> "123456"])

Init == InitAuth /\ InitLogin /\ RestOfCrawl /\ RestOfDetail /\ RestOfNested /\ RestOfFormat /\ RestOfTool /\ RestOfJobs /\ RestOfHttp

Next ==
    \/ \E c \in Callers : Call(c) /\ UNCHANGED <<loginVars, crawlVars, detailVars, nestedVars, formatVars, toolVars, jobVars, httpVars>>
    \/ \E c \in Callers : LoginSettled(c) /\ UNCHANGED <<loginVars, crawlVars, detailVars, nestedVars, formatVars, toolVars, jobVars, httpVars>>
    \/ \E c \in Callers : Run(c) /\ UNCHANGED <<loginVars, crawlVars, detailVars, nestedVars, formatVars, toolVars, jobVars, httpVars>>
    \/ \E c \in Callers : Return(c) /\ UNCHANGED <<loginVars, crawlVars, detailVars, nestedVars, formatVars, toolVars, jobVars, httpVars>>
    \/ Expire /\ UNCHANGED <<loginVars, crawlVars, detailVars, nestedVars, formatVars, toolVars, jobVars, httpVars>>

Spec == Init /\ [][Next]_vars

\* Sequential use: a tool call starts only when no other one is in progress.
NextSeq ==
    \/ \E c \in Callers :
          Call(c) /\ (\A d \in Callers : pc[d] = "idle") /\ UNCHANGED <<loginVars, crawlVars, detailVars, nestedVars, formatVars, toolVars, jobVars, httpVars>>
    \/ \E c \in Callers : LoginSettled(c) /\ UNCHANGED <<loginVars, crawlVars, detailVars, nestedVars, formatVars, toolVars, jobVars, httpVars>>
    \/ \E c \in Callers : Run(c) /\ UNCHANGED <<loginVars, crawlVars, detailVars, nestedVars, formatVars, toolVars, jobVars, httpVars>>
    \/ \E c \in Callers : Return(c) /\ UNCHANGED <<loginVars, crawlVars, detailVars, nestedVars, formatVars, toolVars, jobVars, httpVars>>
    \/ Expire /\ UNCHANGED <<loginVars, crawlVars, detailVars, nestedVars, formatVars, toolVars, jobVars, httpVars>>

SpecSeq == Init /\ [][NextSeq]_vars

\* A later moment of the process: the cache holds a session that an earlier
\* tool call stored and that the portal no longer accepts.
StaleSession == Session(0, <<0>>)

InitStale ==
    /\ AuthIdle(EnvAtRest, Some(StaleSession))
    /\ InitLogin /\ RestOfCrawl /\ RestOfDetail /\ RestOfNested /\ RestOfFormat
    /\ RestOfTool /\ RestOfJobs /\ RestOfHttp

\* each caller makes one tool call, and the sessions issued stay accepted
NextStale ==
    \/ \E c \in Callers : Call(c) /\ UNCHANGED <<loginVars, crawlVars, detailVars, nestedVars, formatVars, toolVars, jobVars, httpVars>>
    \/ \E c \in Callers : LoginSettled(c) /\ UNCHANGED <<loginVars, crawlVars, detailVars, nestedVars, formatVars, toolVars, jobVars, httpVars>>
    \/ \E c \in Callers : Run(c) /\ UNCHANGED <<loginVars, crawlVars, detailVars, nestedVars, formatVars, toolVars, jobVars, httpVars>>

SpecStale == InitStale /\ [][NextStale]_vars

NextLogin ==
    \/ LoginRequest /\ UNCHANGED <<authVars, crawlVars, detailVars, nestedVars, formatVars, toolVars, jobVars, httpVars>>
    \/ LoginResponse /\ UNCHANGED <<authVars, crawlVars, detailVars, nestedVars, formatVars, toolVars, jobVars, httpVars>>

InitLoginOnly ==
    RestOfAuth /\ InitLogin /\ RestOfCrawl /\ RestOfDetail /\ RestOfNested /\ RestOfFormat /\ RestOfTool /\ RestOfJobs /\ RestOfHttp

SpecLogin == InitLoginOnly /\ [][NextLogin]_vars

NextCrawl ==
    \/ RequestWindow /\ UNCHANGED <<authVars, loginVars, detailVars, nestedVars, formatVars, toolVars, jobVars, httpVars>>
    \/ WindowAnswered /\ UNCHANGED <<authVars, loginVars, detailVars, nestedVars, formatVars, toolVars, jobVars, httpVars>>
    \/ CrawlReturns /\ UNCHANGED <<authVars, loginVars, detailVars, nestedVars, formatVars, toolVars, jobVars, httpVars>>

InitCrawlOnly ==
    RestOfAuth /\ InitLogin /\ InitCrawl /\ RestOfDetail /\ RestOfNested /\ RestOfFormat /\ RestOfTool /\ RestOfJobs /\ RestOfHttp

SpecCrawl == InitCrawlOnly /\ [][NextCrawl]_vars

\* data_fim at the last instant of its day, as the tool handler passes it
InitCrawlFair ==
    /\ RestOfAuth /\ InitLogin /\ RestOfDetail /\ RestOfNested /\ RestOfFormat
    /\ RestOfTool /\ RestOfJobs /\ RestOfHttp
    /\ \E from \in {Date(d, t) : d \in 0..MaxStartDay, t \in 0..(TicksPerDay - 1)},
          to \in {Date(d, TicksPerDay - 1) : d \in EndDays} :
           CrawlCalled(from, to)

\* every request is answered or fails, and the function goes on whenever it
\* can
SpecCrawlFair == InitCrawlFair /\ [][NextCrawl]_vars /\ WF_vars(NextCrawl)

NextDetail ==
    \/ DetailRequest /\ UNCHANGED <<authVars, loginVars, crawlVars, nestedVars, formatVars, toolVars, jobVars, httpVars>>
    \/ DetailAnswered /\ UNCHANGED <<authVars, loginVars, crawlVars, nestedVars, formatVars, toolVars, jobVars, httpVars>>

InitDetailOnly ==
    RestOfAuth /\ InitLogin /\ RestOfCrawl /\ InitDetail /\ RestOfNested /\ RestOfFormat /\ RestOfTool /\ RestOfJobs /\ RestOfHttp

SpecDetail == InitDetailOnly /\ [][NextDetail]_vars

NextNested == GetNested /\ UNCHANGED <<authVars, loginVars, crawlVars, detailVars, formatVars, toolVars, jobVars, httpVars>>

InitNestedOnly ==
    RestOfAuth /\ InitLogin /\ RestOfCrawl /\ RestOfDetail /\ InitNested /\ RestOfFormat /\ RestOfTool /\ RestOfJobs /\ RestOfHttp

SpecNested == InitNestedOnly /\ [][NextNested]_vars

NextFormat ==
    FormatNfseResult /\ UNCHANGED <<authVars, loginVars, crawlVars, detailVars, nestedVars, toolVars, jobVars, httpVars>>

InitFormatOnly ==
    RestOfAuth /\ InitLogin /\ RestOfCrawl /\ RestOfDetail /\ RestOfNested /\ InitFormat /\ RestOfTool /\ RestOfJobs /\ RestOfHttp

SpecFormat == InitFormatOnly /\ [][NextFormat]_vars

NextTool ==
    \/ HandlerStarts /\ UNCHANGED <<authVars, loginVars, crawlVars, detailVars, nestedVars, formatVars, jobVars, httpVars>>
    \/ HandlerSettles /\ UNCHANGED <<authVars, loginVars, crawlVars, detailVars, nestedVars, formatVars, jobVars, httpVars>>

InitToolOnly ==
    RestOfAuth /\ InitLogin /\ RestOfCrawl /\ RestOfDetail /\ RestOfNested /\ RestOfFormat
    /\ InitTool /\ RestOfJobs /\ RestOfHttp

SpecTool == InitToolOnly /\ [][NextTool]_vars

\* the cache as some earlier tool call left it
InitJobsOnly ==
    /\ \E cache \in {None, Some(Session(1, JobSessions[1]))} : AuthIdle(EnvAtRest, cache)
    /\ InitLogin /\ RestOfCrawl /\ RestOfDetail /\ RestOfNested /\ RestOfFormat
    /\ RestOfTool /\ InitJobs /\ RestOfHttp

NextJobs ==
    \/ \E j \in JobIds : JobRequests(j) /\ UNCHANGED <<authVars, loginVars, crawlVars, detailVars, nestedVars, formatVars, toolVars, httpVars>>
    \/ \E j \in JobIds : JobAnswered(j) /\ UNCHANGED <<authVars, loginVars, crawlVars, detailVars, nestedVars, formatVars, toolVars, httpVars>>

SpecJobs == InitJobsOnly /\ [][NextJobs]_vars

InitHttpOnly ==
    RestOfAuth /\ InitLogin /\ RestOfCrawl /\ RestOfDetail /\ RestOfNested /\ RestOfFormat
    /\ RestOfTool /\ RestOfJobs /\ HttpStarted

NextHttp ==
    \/ \E r \in RequestIds : Receive(r) /\ UNCHANGED <<authVars, loginVars, crawlVars, detailVars, nestedVars, formatVars, toolVars, jobVars>>
    \/ \E r \in RequestIds : BodyRead(r) /\ UNCHANGED <<authVars, loginVars, crawlVars, detailVars, nestedVars, formatVars, toolVars, jobVars>>
    \/ \E r \in RequestIds : Connected(r) /\ UNCHANGED <<authVars, loginVars, crawlVars, detailVars, nestedVars, formatVars, toolVars, jobVars>>
    \/ \E r \in RequestIds : Initialized(r) /\ UNCHANGED <<authVars, loginVars, crawlVars, detailVars, nestedVars, formatVars, toolVars, jobVars>>
    \/ \E r \in RequestIds : Handled(r) /\ UNCHANGED <<authVars, loginVars, crawlVars, detailVars, nestedVars, formatVars, toolVars, jobVars>>
    \/ \E t \in TransportIds : TransportCloses(t) /\ UNCHANGED <<authVars, loginVars, crawlVars, detailVars, nestedVars, formatVars, toolVars, jobVars>>

SpecHttp == InitHttpOnly /\ [][NextHttp]_vars

(***************************************************************************)
(* Properties of withAutoLogin and ensureAuthenticated.                    *)
(***************************************************************************)
Unauth == "UnauthenticatedSessionException"

Finished(c) == pc[c] = "done"

\* the first run of c's call raised UnauthenticatedSessionException and the
\* second run returned
ExpiredOnFirstUse(c) ==
    /\ Finished(c)
    /\ Len(runs[c]) >= 2
    /\ runs[c][1].result = Unauth
    /\ runs[c][2].result = "return"

\* both runs of c's call raised UnauthenticatedSessionException
ExpiredTwice(c) ==
    /\ Finished(c)
    /\ Len(runs[c]) >= 2
    /\ runs[c][1].result = Unauth
    /\ runs[c][2].result = Unauth

\* C1: when the first run of the action raises UnauthenticatedSessionException
\* and the second run succeeds, the call of withAutoLogin has made exactly two
\* calls of ensureAuthenticated and exactly two runs of the action, the second
\* run got the session acquired after the cache was cleared (freshCookies, a
\* session other than the expired one), and withAutoLogin returns the second
\* run's result.
C1_ReauthRetry ==
    \A c \in Callers :
        ExpiredOnFirstUse(c) =>
            /\ ensures[c] = 2
            /\ Len(runs[c]) = 2
            /\ freshCookies[c] # None
            /\ runs[c][2].session = freshCookies[c][1]
            /\ runs[c][2].session.id > runs[c][1].session.id
            /\ logins[c] >= 1
            /\ outcome[c] = Outcome("return", <<>>, "run", 2)

C1_Witness == \E c \in Callers : ExpiredOnFirstUse(c)

\* C2: a call of withAutoLogin never runs the action more than twice nor calls
\* ensureAuthenticated more than twice; when both runs raise
\* UnauthenticatedSessionException the call ends there and throws the second
\* run's UnauthenticatedSessionException as it is.
C2_SecondExpiryPropagates ==
    \A c \in Callers :
        /\ Len(runs[c]) <= 2
        /\ ensures[c] <= 2
        /\ ExpiredTwice(c) =>
               /\ Len(runs[c]) = 2
               /\ ensures[c] = 2
               /\ outcome[c] = Outcome(Unauth, UnauthenticatedSessionException.message, "run", 2)

C2_Witness == \E c \in Callers : ExpiredTwice(c)

\* C3: in every reachable state the cache is absent or holds a non-empty
\* session.
C3_CacheAbsentOrNonEmpty ==
    cachedCookies = None \/ cachedCookies[1].cookies # <<>>

\* C4: when withAutoLogin has returned or thrown, the cache holds none of the
\* sessions that a run of this call reported expired.
C4_ExpiredSessionNotCached ==
    \A c \in Callers :
        Finished(c) =>
            \A i \in 1..Len(runs[c]) :
                runs[c][i].result = Unauth => cachedCookies # Some(runs[c][i].session)

\* a login request is made by c in this step
LoginIssued(c) == pc[c] # "login" /\ pc'[c] = "login"

\* c calls withAutoLogin in this step
Calls(c) == pc[c] = "idle" /\ pc'[c] # "idle"

\* C5: (a) a call of ensureAuthenticated that finds a session in the cache
\* hands out exactly that session, makes no login request and leaves the cache
\* as it is; (b) in sequential use a login request is made only when the cache
\* is absent, or when a run of the action has just reported the cached session
\* expired; it is never made while the portal accepts the cached session.
C5_CachedSessionReused ==
    [][\A c \in Callers :
          /\ (Calls(c) /\ cachedCookies # None) =>
                 /\ pc'[c] = "run"
                 /\ cookies'[c] = cachedCookies
                 /\ cachedCookies' = cachedCookies
                 /\ loginRequests' = loginRequests
                 /\ logins'[c] = 0
          /\ LoginIssued(c) =>
                 /\ loginRequests' = loginRequests + 1
                 /\ \/ cachedCookies = None
                    \/ /\ pc[c] = "run"
                       /\ runs'[c][Len(runs'[c])].result = Unauth
                       /\ cachedCookies[1].cookies \notin accepted
      ]_vars

\* a second tool call has been served from the cache
C5_Witness ==
    \E c \in Callers :
        /\ pc[c] = "run"
        /\ cachedCookies # None
        /\ cookies[c] = cachedCookies
        /\ ensures[c] = 1
        /\ logins[c] = 0

(***************************************************************************)
(* Properties of login.                                                    *)
(***************************************************************************)
\* C10: login returns a session if and only if the request was answered with
\* a status in [200,400) and a Location header ending in
\* /EmissorNacional/Dashboard; otherwise it throws an ApplicationException (and
\* never an UnauthenticatedSessionException); one call makes one request.
C10_LoginSuccessCriteria ==
    /\ lg.requests <= 1
    /\ lg.pc = "done" =>
          /\ lg.requests = 1
          /\ lg.result.ok <=>
                /\ lg.resp.net = "ok"
                /\ lg.resp.status >= 200
                /\ lg.resp.status < 400
                /\ lg.resp.location # None
                /\ endsWith(lg.resp.location[1], DashboardPath)
          /\ ~lg.result.ok => lg.result.error.kind = "ApplicationException"

C10_Witness ==
    /\ lg.pc = "done"
    /\ lg.result.ok
    /\ lg.resp.status = 302
    /\ lg.resp.location = Some(<<"www.nfse.gov.br">> \o DashboardPath)

\* the request of login met login's success criteria
LoginCriteriaMet ==
    /\ lg.resp.net = "ok"
    /\ lg.resp.status >= 200
    /\ lg.resp.status < 400
    /\ lg.resp.location # None
    /\ endsWith(lg.resp.location[1], DashboardPath)

\* C11: when the request met the success criteria and the response carries no
\* Set-Cookie header, login returns the empty session and does not throw, and
\* ensureAuthenticated, handed that result of login, throws
\* ApplicationException("Nenhum cookie recebido apos login."); login never
\* throws when the criteria are met, whatever the cookies, and
\* ensureAuthenticated returns what login returned whenever that is not empty.
C11_EmptySessionAsymmetry ==
    lg.pc = "done" =>
        /\ LoginCriteriaMet => lg.result.ok
        /\ (LoginCriteriaMet /\ lg.resp.setCookie = None) =>
               /\ lg.result = Returned(<<>>)
               /\ ensureAfterLogin(lg.result) =
                      Threw(ApplicationException(<<"Nenhum cookie recebido apos login.">>))
        /\ (lg.result.ok /\ lg.result.value # <<>>) =>
               ensureAfterLogin(lg.result) = Returned(lg.result.value)
        /\ ~lg.result.ok => ensureAfterLogin(lg.result) = Threw(lg.result.error)

\* a dashboard redirect without cookies
C11_Witness ==
    /\ lg.pc = "done"
    /\ lg.resp.status = 302
    /\ lg.resp.location = Some(DashboardPath)
    /\ lg.resp.setCookie = None
    /\ lg.result = Returned(<<>>)

(***************************************************************************)
(* Properties of buscar_nfse.                                              *)
(***************************************************************************)
CrawlDone == cpc = "done"
CrawlReturned == cpc = "done" /\ cresult[1].ok

\* the response of window i was delivered by axios and references the login
\* path, in its resolved URL or in its Location header
LoginRedirected(i) ==
    /\ windows[i].delivered
    /\ windows[i].urlLogin \/ windows[i].locationLogin

\* the items of the rows of the windows i..Len(windows) that were scraped
RECURSIVE itemsFrom(_)
itemsFrom(i) ==
    IF i > Len(windows) THEN <<>>
    ELSE IF windows[i].result = "ok" THEN scrape(windows[i].page) \o itemsFrom(i + 1)
    ELSE itemsFrom(i + 1)

\* C6: a window that fails with an error other than an authentication failure
\* does not stop the crawl: when no response referenced the login path,
\* buscar_nfse returns; each window starts the day after the one before, failed
\* or not; the last one reaches data_fim; and the result is the items of the
\* windows that succeeded, in window order.
C6_CrawlResilience ==
    (CrawlDone /\ \A i \in 1..Len(windows) : ~LoginRedirected(i)) =>
        /\ cresult[1].ok
        /\ \A i \in 1..Len(windows) : windows[i].result \in {"ok", "caught"}
        /\ \A i \in 1..(Len(windows) - 1) : windows[i + 1].start = nextStart(windows[i].end)
        /\ windows # <<>> => nextStart(windows[Len(windows)].end) > data_fim
        /\ cresult[1].value = itemsFrom(1)

\* window 2 of 3 failed, windows 1 and 3 gave items
C6_Witness ==
    /\ CrawlReturned
    /\ Len(windows) = 3
    /\ windows[2].result = "caught"
    /\ scrape(windows[1].page) # <<>>
    /\ scrape(windows[3].page) # <<>>
    /\ cresult[1].value = scrape(windows[1].page) \o scrape(windows[3].page)

\* C7: as soon as the response of a window, as delivered by axios, references
\* the login path, buscar_nfse throws UnauthenticatedSessionException: that
\* window is the last one requested, and the items of the earlier windows are
\* not returned.
C7_AuthFailureAborts ==
    \A i \in 1..Len(windows) :
        LoginRedirected(i) =>
            /\ i = Len(windows)
            /\ cpc = "done"
            /\ cresult = Some(Threw(UnauthenticatedSessionException))

\* the login redirect came after a window had given items, with days left
C7_Witness ==
    /\ Len(windows) = 2
    /\ LoginRedirected(2)
    /\ allNfses # <<>>
    /\ nextStart(windows[2].end) <= data_fim

WindowDays == ChunkDays + 1

Min(a, b) == IF a < b THEN a ELSE b

\* C8: for data_inicio <= data_fim, whatever their times of day, the windows
\* requested by a crawl that ran to its end start on data_inicio's day, follow
\* each other day after day, span at most 30 days each, end on data_fim's day,
\* and number ceil(days / 30), days being the number of calendar days from
\* data_inicio's to data_fim's.
C8_WindowPartition ==
    (CrawlReturned /\ data_inicio <= data_fim) =>
        LET n == Len(windows)
            firstDay == dayOf(data_inicio)
            lastDay == dayOf(data_fim)
        IN  /\ n = (lastDay - firstDay + 1 + WindowDays - 1) \div WindowDays
            /\ n >= 1
            /\ dayOf(windows[1].start) = firstDay
            /\ dayOf(windows[1].end) = Min(firstDay + ChunkDays, lastDay)
            /\ \A i \in 1..n :
                   /\ dayOf(windows[i].start) <= dayOf(windows[i].end)
                   /\ dayOf(windows[i].end) - dayOf(windows[i].start) + 1 <= WindowDays
            /\ \A i \in 1..(n - 1) :
                   dayOf(windows[i + 1].start) = dayOf(windows[i].end) + 1
            /\ dayOf(windows[n].end) = lastDay

(***************************************************************************)
(* Properties of get_nfse and get_nfse_pdf.                                *)
(***************************************************************************)
\* axios delivered a response: the request was answered with a status in
\* [200,400)
Delivered(resp) == resp.net = "ok" /\ resp.status >= 200 /\ resp.status < 400

\* the resolved URL or the Location header references /EmissorNacional/Login
ReferencesLogin(resp) ==
    \/ resp.responseUrl # None /\ includes(resp.responseUrl[1], LoginPath)
    \/ resp.location # None /\ includes(resp.location[1], LoginPath)

\* C9: a call of get_nfse or get_nfse_pdf that fails throws either the
\* UnauthenticatedSessionException as checkAuthentication made it, exactly
\* when the response delivered by axios references the login path, or an
\* ApplicationException whose message names the failed operation, the key and
\* the cause; a failed request, a body that does not parse, a failed write and
\* a failed normalization all end in the latter, and nothing else is thrown.
C9_DetailErrorClassification ==
    dt.pc = "done" =>
        LET r == dt.result
            expired == Delivered(dt.resp) /\ ReferencesLogin(dt.resp)
        IN  /\ ~r.ok => r.error.kind \in {Unauth, "ApplicationException"}
            /\ (~r.ok /\ r.error.kind = Unauth) <=> expired
            /\ expired => r = Threw(UnauthenticatedSessionException)
            /\ (~r.ok /\ ~expired) =>
                   /\ r.error.kind = "ApplicationException"
                   /\ Len(r.error.message) > 2
                   /\ SubSeq(r.error.message, 1, 2) = <<FetchPrefix(dt.fn), dt.key>>
            /\ r.ok =>
                   /\ Delivered(dt.resp)
                   /\ dt.writable
                   /\ dt.fn = "get_nfse" =>
                          /\ dt.resp.data.parses
                          /\ formatNfseResult(dt.resp.data.tree, r.value.xml_path).ok

\* a login redirect announced by the Location header alone
C9_Witness ==
    /\ dt.pc = "done"
    /\ dt.resp.status = 302
    /\ dt.resp.responseUrl = None
    /\ dt.resp.location = Some(LoginPath \o <<"ReturnUrl">>)
    /\ dt.result = Threw(UnauthenticatedSessionException)

(***************************************************************************)
(* Properties of getNested.                                                *)
(***************************************************************************)
\* the four calls the specification names, with the value each is to return
NamedCalls ==
    { <<Nul, Nul>>,
      <<EmptyObj, Nul>>,
      <<Obj([a |-> Arr(<<EmptyObj>>)]), Nul>>,
      <<Obj([a |-> Arr(<<Obj([b |-> Str("x")])>>)]), Str("x")>> }

NamedCallsHold ==
    (gn.pc = "done" /\ gn.path = <<"a", "b">>) =>
        \A call \in NamedCalls : gn.obj = call[1] => gn.result = Returned(call[2])

\* C12: getNested never throws, whatever the tree (strings, mappings,
\* sequences, empty ones included, and null) and whatever the path; the four
\* named calls return null, null, null and "x".
C12_GetNestedNeverThrows ==
    /\ gn.pc = "done" => gn.result.ok
    /\ NamedCallsHold

(***************************************************************************)
(* Properties of formatNfseResult.                                         *)
(***************************************************************************)
\* the tree has the document root NFSe and, in it, the information node
HasRoots(tree) ==
    /\ tree.t = "obj"
    /\ "NFSe" \in DOMAIN tree.fields
    /\ tree.fields["NFSe"].t = "obj"
    /\ "infNFSe" \in DOMAIN tree.fields["NFSe"].fields
    /\ ~nullish(tree.fields["NFSe"].fields["infNFSe"])

FormatDone == fm.pc = "done"

\* a tree without one of the roots comes back as the raw fallback
FallbackWhenRootless ==
    (FormatDone /\ ~HasRoots(fm.xmlObj)) =>
        fm.result = Returned(RawDetail(fm.xmlObj, fm.xmlPath))

\* a tree with both roots comes back as the structured record
RecordWhenRooted ==
    (FormatDone /\ HasRoots(fm.xmlObj)) =>
        /\ fm.result.ok
        /\ fm.result.value.shape = "detail"
        /\ fm.result.value.xml_path = fm.xmlPath

\* C13: a tree lacking NFSe or infNFSe (a null tree included) is returned as
\* {raw: the tree, xml_path: the stored path}, without a throw; a tree having
\* both is returned as the record of cabecalho, emitente, valores and dps
\* with the same xml_path.
C13_NormalizerFallback == FallbackWhenRootless /\ RecordWhenRooted

\* C14: for a tree that has both roots formatNfseResult reads every one of
\* its paths without raising and returns a record, whatever lies below the
\* roots: elements missing, empty sequences, strings in the place of
\* mappings, the declaration present or absent.
C14_NormalizationNeverRaises ==
    (FormatDone /\ HasRoots(fm.xmlObj)) => fm.result.ok

Range(f) == {f[x] : x \in DOMAIN f}

\* the leaf fields of a structured record
LeavesOf(record) ==
    Range(record.cabecalho) \cup Range(record.emitente)
    \cup Range(record.emitente_endereco) \cup Range(record.valores)
    \cup (IF record.dps = None THEN {}
          ELSE UNION {Range(record.dps[1][part]) : part \in DOMAIN record.dps[1]})

\* C15: in every structured record formatNfseResult returns, each leaf field
\* of cabecalho, emitente, valores and dps is a string or null, never a
\* mapping, a sequence or undefined, also when the element at the leaf's path
\* carries attributes or children.
C15_LeavesStringOrNull ==
    (FormatDone /\ fm.result.ok /\ fm.result.value.shape = "detail") =>
        \A leaf \in LeavesOf(fm.result.value) : leaf.t \in {"str", "null"}

(***************************************************************************)
(* Properties of the tool handlers.                                        *)
(***************************************************************************)
DatesRefused ==
    th.tool = "nfse_buscar"
    /\ (invalidDate(th.args.data_inicio) \/ invalidDate(th.args.data_fim))

\* C16: a handler of nfse_buscar, nfse_detalhes or nfse_pdf calls its core
\* function through withAutoLogin, once, and always returns a payload: a value
\* of withAutoLogin gives a payload without isError, every rejection of
\* withAutoLogin (from the core function, login or ensureAuthenticated,
\* ApplicationException or not) gives a payload with isError and the handler's
\* prefix followed by the error's message; nothing is thrown by a handler;
\* nfse_buscar answers a date it cannot parse with an error payload, without
\* calling withAutoLogin.
C16_HandlersReturnPayload ==
    /\ th.calls <= 1
    /\ th.pc = "done" =>
          /\ th.result.ok
          /\ IF DatesRefused
             THEN /\ th.calls = 0
                  /\ th.result.value.isError
                  /\ th.result.value.text # <<>>
             ELSE /\ th.calls = 1
                  /\ th.core = Some(coreOf(th.tool))
                  /\ th.settled # None
                  /\ th.settled[1].ok => ~th.result.value.isError
                  /\ ~th.settled[1].ok =>
                         /\ th.result.value.isError
                         /\ th.result.value.text =
                                <<ErrorPrefix(th.tool)>> \o th.settled[1].error.message

\* withAutoLogin rejected with an error that is no ApplicationException
C16_Witness ==
    /\ th.pc = "done"
    /\ th.tool = "nfse_detalhes"
    /\ th.settled = Some(Threw(ReadError))
    /\ th.result = Returned(Payload(TRUE, <<"Erro ao obter detalhes da NFSe", "EACCES">>))

(***************************************************************************)
(* Properties of the items of buscar_nfse.                                 *)
(***************************************************************************)
\* the places of an href where the download path starts and is followed by
\* a segment that begins with a digit
KeyPlaces(href) ==
    {n \in 1..(Len(href) - Len(DownloadPath)) :
        /\ \A m \in 1..Len(DownloadPath) : href[n + m - 1] = DownloadPath[m]
        /\ href[n + Len(DownloadPath)][1] \in Digits}

\* the row has a download anchor with a digit group
Keyed(row) ==
    /\ row.href # None
    /\ KeyPlaces(row.href[1]) # {}

\* the digit group of the first such place
AnchorKey(row) ==
    LET href == row.href[1]
        n == CHOOSE k \in KeyPlaces(href) : \A l \in KeyPlaces(href) : k <= l
        seg == href[n + Len(DownloadPath)]
        stop == CHOOSE k \in 1..Len(seg) :
                    /\ \A l \in 1..k : seg[l] \in Digits
                    /\ k < Len(seg) => seg[k + 1] \notin Digits
    IN  SubSeq(seg, 1, stop)

\* the keys of the keyed rows of the windows i..Len(windows) that were scraped
RECURSIVE keysFrom(_)
keysFrom(i) ==
    IF i > Len(windows) THEN <<>>
    ELSE IF windows[i].result = "ok"
    THEN LET keyed == SelectSeq(windows[i].page, Keyed)
         IN  [n \in 1..Len(keyed) |-> AnchorKey(keyed[n])] \o keysFrom(i + 1)
    ELSE keysFrom(i + 1)

\* C17: every item returned by buscar_nfse has a non-empty key of digits only,
\* and the keys returned are exactly the digit groups of the download anchors
\* of the rows that have one, in page order: a row with no such anchor, or no
\* digit group in it, gives no item, and the rows around it still give theirs.
C17_ListItemKey ==
    CrawlReturned =>
        LET items == cresult[1].value
        IN  /\ \A n \in DOMAIN items :
                  /\ items[n].chave # <<>>
                  /\ \A c \in DOMAIN items[n].chave : items[n].chave[c] \in Digits
            /\ [n \in DOMAIN items |-> items[n].chave] = keysFrom(1)

\* a scraped page held a row with no anchor and a row whose anchor has no
\* digit group, and a keyed row after them gave its item
C17_Witness ==
    /\ CrawlReturned
    /\ \E i \in DOMAIN windows :
          /\ windows[i].result = "ok"
          /\ \E a, b, c \in DOMAIN windows[i].page :
                /\ a < c /\ b < c
                /\ windows[i].page[a].href = None
                /\ windows[i].page[b].href # None /\ ~Keyed(windows[i].page[b])
                /\ Keyed(windows[i].page[c])
                /\ \E n \in DOMAIN cresult[1].value :
                      cresult[1].value[n].chave = AnchorKey(windows[i].page[c])

\* every field of the item is filled
Filled(item) ==
    /\ item.data # <<>>
    /\ item.emitidoPara.cnpj # ""
    /\ item.emitidoPara.nome # <<>>
    /\ item.competencia # ""
    /\ item.municipioEmissor # ""
    /\ item.status # ""
    /\ item.chave # <<>>
    /\ ~item.valor.nan /\ item.valor.cents > 0

\* C18: every item returned by buscar_nfse has data, emitidoPara.cnpj,
\* emitidoPara.nome, competencia, municipioEmissor, status and chave non-empty
\* and a valor that is a number greater than 0.
C18_AllFieldsFilled ==
    CrawlReturned => \A n \in DOMAIN cresult[1].value : Filled(cresult[1].value[n])

(***************************************************************************)
(* Properties of the cache under simultaneous callers.                     *)
(***************************************************************************)
\* the login awaited by caller c settles in this step
LoginSettles(c) == pc[c] = "login" /\ pc'[c] # "login"

\* the session caller c was handed by its latest ensureAuthenticated
Handed(c) == IF ensures[c] = 1 THEN cookies[c] ELSE freshCookies[c]

\* C19: nothing serializes ensureAuthenticated: a caller that finds the cache
\* absent starts a login of its own whether or not one is in flight, and every
\* login that resolves overwrites the cache with its own session, whatever an
\* earlier login stored there: the cache holds the session of the login that
\* finished last.  A rejected login leaves the cache as it was.
C19_LastLoginWins ==
    [][\A c \in Callers :
          /\ (pc[c] = "idle" /\ pc'[c] # "idle" /\ cachedCookies = None
                 /\ configError(env) = None)
              => pc'[c] = "login" /\ loginRequests' = loginRequests + 1
          /\ LoginSettles(c) =>
                \/ /\ cachedCookies' = cachedCookies
                   /\ pc'[c] = "done"
                   /\ outcome'[c][1].from = "ensure"
                \/ /\ cachedCookies' # None
                   /\ cachedCookies'[1].id = issued'
                   /\ cachedCookies'[1].cookies \in {<<issued'>>, <<>>}
                   /\ pc'[c] = "run" => Handed(c)' = cachedCookies']_vars

\* two callers found the cache absent and each made its own login; both
\* logins resolved, the first caller runs on the first session and the cache
\* holds the second
C19_Witness ==
    \E c1, c2 \in Callers :
        /\ c1 # c2
        /\ ensures[c1] = 1 /\ ensures[c2] = 1
        /\ logins[c1] = 1 /\ logins[c2] = 1
        /\ pc[c1] = "run" /\ pc[c2] = "run"
        /\ cookies[c1] # None /\ cookies[c2] # None
        /\ cookies[c1][1].id = 1
        /\ cookies[c2][1].id = 2
        /\ cachedCookies = cookies[c2]
        /\ cachedCookies # cookies[c1]

(***************************************************************************)
(* Properties of core calls that run side by side.                         *)
(***************************************************************************)
\* what buscar_nfse gives from window n on when nothing else is running
RECURSIVE crawlAlone(_, _, _, _)
crawlAlone(live, header, n, items) ==
    LET t == tryWindow(portalAnswer(live, header, "buscar_nfse", n))
        got == IF t.threw THEN items ELSE items \o t.items
    IN  IF t.threw /\ rethrows(t.error) THEN Threw(t.error)
        ELSE IF n = JobWindows THEN Returned(got)
        ELSE crawlAlone(live, header, n + 1, got)

\* the result of a core function called on a session with no other call
\* in progress
alone(live, fn, cookieArray) ==
    IF fn = "buscar_nfse" THEN crawlAlone(live, join(cookieArray), 1, <<>>)
    ELSE IF fn = "get_nfse"
    THEN get_nfse("123456", portalAnswer(live, join(cookieArray), fn, 1), TRUE)
    ELSE get_nfse_pdf("123456", portalAnswer(live, join(cookieArray), fn, 1), TRUE)

JobsFrame ==
    \A j \in JobIds :
        /\ jobs.of[j].cookies = JobSessions[j]
        /\ jobs.of[j].sent # None => jobs.of[j].sent[1] = join(JobSessions[j])
        /\ jobs.of[j].pc = "done" =>
              jobs.of[j].result = Some(alone(jobs.live, jobs.of[j].fn, JobSessions[j]))

\* C20: buscar_nfse, get_nfse and get_nfse_pdf send the session they were
\* passed and nothing else, leave that session and the process-wide cache as
\* they found them, and under every interleaving of two of them on different
\* sessions each ends with the result it has when run alone.
C20_NoSharedState ==
    /\ []JobsFrame
    /\ [][cachedCookies' = cachedCookies]_vars

\* a crawl on the first session and a fetch on the second ran side by side,
\* with the first session in the cache, and each returned its own account's
\* data
C20_Witness ==
    /\ cachedCookies = Some(Session(1, JobSessions[1]))
    /\ jobs.live = {join(JobSessions[1]), join(JobSessions[2])}
    /\ jobs.of[1].fn = "buscar_nfse" /\ jobs.of[2].fn = "get_nfse"
    /\ jobs.of[1].pc = "done" /\ jobs.of[2].pc = "done"
    /\ jobs.of[1].overlapped /\ jobs.of[2].overlapped
    /\ jobs.of[1].result[1].ok /\ jobs.of[2].result[1].ok
    /\ Len(jobs.of[1].result[1].value) = JobWindows
    /\ jobs.of[1].result[1].value[1] = rowItem(NoteRow(1, 1))
    /\ jobs.of[2].result[1].value.emitente.cnpj = Str("2")

(***************************************************************************)
(* Properties of the order of the crawl.                                   *)
(***************************************************************************)
\* the items of the keyed rows of the windows i..Len(windows) that were
\* scraped, window after window, each page top to bottom
RECURSIVE inOrder(_)
inOrder(i) ==
    IF i > Len(windows) THEN <<>>
    ELSE IF windows[i].result = "ok"
    THEN LET keyed == SelectSeq(windows[i].page, Keyed)
         IN  [n \in 1..Len(keyed) |-> rowItem(keyed[n])] \o inOrder(i + 1)
    ELSE inOrder(i + 1)

\* C21: buscar_nfse has at most one listing request in flight, the one of the
\* last window cut; every earlier window was scraped or its failure caught
\* before the next was requested; window starts strictly increase, so no
\* window is requested twice; and the items gathered so far, and the sequence
\* returned, are the items of the scraped windows in window order, each
\* page's rows top to bottom.
C21_SequentialAscending ==
    /\ \A i \in 1..(Len(windows) - 1) :
          /\ windows[i].result \in {"ok", "caught"}
          /\ windows[i].start < windows[i + 1].start
          /\ windows[i].end < windows[i + 1].start
    /\ (cpc = "await") <=> (windows # <<>> /\ windows[Len(windows)].result = "pending")
    /\ allNfses = inOrder(1)
    /\ CrawlReturned => cresult[1].value = inOrder(1)

\* three windows were requested one after the other and scraped, the first
\* page with several keyed rows
C21_Witness ==
    /\ CrawlReturned
    /\ Len(windows) = 3
    /\ \A i \in 1..3 : windows[i].result = "ok" /\ windows[i].page # <<>>
    /\ Len(SelectSeq(windows[1].page, Keyed)) >= 2
    /\ Len(cresult[1].value) >= 4

(***************************************************************************)
(* The reference accessor.                                                 *)
(***************************************************************************)
\* indexing by a segment; what is absent has no members
at(node, part) == IF nullish(node) THEN Undefined ELSE member(node, part)

\* a sequence stands for its first element
unwrapped(node) == IF node.t = "arr" THEN first(node) ELSE node

RECURSIVE refWalk(_, _)
refWalk(current, parts) ==
    IF parts = <<>> THEN unwrapped(current)
    ELSE refWalk(at(unwrapped(current), Head(parts)), Tail(parts))

refNested(obj, path) ==
    LET found == IF path = <<>> THEN obj ELSE refWalk(obj, path)
    IN  IF nullish(found) THEN Nul ELSE found

\* C22: for every tree and path getNested returns what the reference accessor
\* gives: the tree itself for the empty path; otherwise, segment by segment,
\* a sequence is replaced by its first element and then indexed, a sequence
\* left at the end is replaced by its first element once, and what is absent
\* is null.
C22_ExtractorResult ==
    gn.pc = "done" => gn.result = Returned(refNested(gn.obj, gn.path))

\* whenever getNested returns, on a tree that is not the empty string, it
\* returns what the reference accessor gives
ReturnsAsReference ==
    (gn.pc = "done" /\ gn.result.ok /\ gn.obj # Str("")) =>
        gn.result.value = refNested(gn.obj, gn.path)

(***************************************************************************)
(* Properties of the steps of get_nfse.                                    *)
(***************************************************************************)
StoredPath == <<"storage", "uuid", ".xml">>

StoreFailure(key) ==
    Threw(ApplicationException(<<"Falha ao obter NFSe", key, "Falha ao salvar arquivo", "EACCES">>))

\* C23: get_nfse makes one request and calls store_file at most once: not at
\* all when the request failed, the session was found expired or the body
\* did not parse; before normalizing, so that a failed store is what is
\* reported whatever the tree; and every record returned, structured or raw,
\* carries the path that one store_file call returned.
C23_DetailStepOrder ==
    (dt.fn = "get_nfse" /\ dt.pc = "done") =>
        /\ dt.requests = 1
        /\ dt.stores <= 1
        /\ (~Delivered(dt.resp) \/ ReferencesLogin(dt.resp) \/ ~dt.resp.data.parses) =>
              dt.stores = 0 /\ ~dt.result.ok
        /\ (dt.stores = 1 /\ ~dt.writable) => dt.result = StoreFailure(dt.key)
        /\ dt.result.ok =>
              /\ dt.stores = 1 /\ dt.writable
              /\ dt.result.value.shape \in {"detail", "raw"}
              /\ dt.result.value.xml_path = StoredPath

\* a structured record was returned after the one store
C23_Witness ==
    /\ dt.fn = "get_nfse" /\ dt.pc = "done"
    /\ dt.result.ok /\ dt.result.value.shape = "detail"
    /\ dt.stores = 1
    /\ dt.result.value.xml_path = StoredPath

(***************************************************************************)
(* Properties of the first item.                                           *)
(***************************************************************************)
\* The emission date of NoteRow(k, i) is read as: in the k-th window of the
\* range, the i-th most recent of its page.
Dated(item) == item.data # <<>>

issuedBefore(a, b) ==
    \/ a.data[1] < b.data[1]
    \/ a.data[1] = b.data[1] /\ a.data[2] > b.data[2]

\* C24: the first item returned by buscar_nfse is the most recent document of
\* the whole range, each page listing the most recent first, whether the
\* range is one window or several.
C24_FirstIsMostRecent ==
    (CrawlReturned /\ \A n \in DOMAIN cresult[1].value : Dated(cresult[1].value[n])) =>
        \A n \in DOMAIN cresult[1].value :
            ~issuedBefore(cresult[1].value[1], cresult[1].value[n])

\* within a range of one window the first item is the most recent
FirstIsMostRecentOfOneWindow ==
    (CrawlReturned /\ Len(windows) = 1
       /\ \A n \in DOMAIN cresult[1].value : Dated(cresult[1].value[n])) =>
        \A n \in DOMAIN cresult[1].value :
            ~issuedBefore(cresult[1].value[1], cresult[1].value[n])

(***************************************************************************)
(* Properties of the clearing of the cache.                                *)
(***************************************************************************)
\* the run of caller c that ends in this step used this session
RanOn(c, session) ==
    /\ Len(runs'[c]) = Len(runs[c]) + 1
    /\ runs'[c][Len(runs'[c])].session = session

\* C25: a session that the cache holds and the portal accepts is cleared
\* from the cache only in a step where an action ran on that very session; a
\* caller whose action failed on an older session does not discard the newer
\* one cached meanwhile.
C25_ClearsOnlyExpired ==
    [][(cachedCookies # None /\ cachedCookies[1].cookies \in accepted
          /\ cachedCookies' = None) =>
             \E c \in Callers : RanOn(c, cachedCookies[1])]_vars

(***************************************************************************)
(* Properties of a window that fails.                                      *)
(***************************************************************************)
\* the item is one of the k-th window: the portal's pages for the k-th window
\* carry keys that begin with the digit of k
OfWindow(item, k) == item.chave # <<>> /\ item.chave[1] = digit(k)

\* C26: a window whose processing ended in an error, or has not ended yet,
\* has no item among those gathered; every item returned is a row of the page
\* of a window that was scraped to its end.
C26_FailedWindowGivesNothing ==
    /\ \A k \in DOMAIN windows :
          windows[k].result # "ok" =>
              \A n \in DOMAIN allNfses : ~OfWindow(allNfses[n], k)
    /\ CrawlReturned =>
          \A n \in DOMAIN cresult[1].value :
              \E k \in DOMAIN windows :
                  /\ windows[k].result = "ok"
                  /\ OfWindow(cresult[1].value[n], k)
                  /\ \E r \in DOMAIN windows[k].page :
                        /\ Keyed(windows[k].page[r])
                        /\ rowItem(windows[k].page[r]) = cresult[1].value[n]

\* the request of the first window failed, the second window gave the items
\* that are returned
C26_Witness ==
    /\ CrawlReturned
    /\ Len(windows) = 2
    /\ windows[1].result = "caught" /\ ~windows[1].delivered
    /\ windows[2].result = "ok"
    /\ cresult[1].value # <<>>
    /\ \A n \in DOMAIN cresult[1].value : OfWindow(cresult[1].value[n], 2)

(***************************************************************************)
(* Properties of a re-login that fails.                                    *)
(***************************************************************************)
\* the call of c ended in its second ensureAuthenticated, after the first run
\* of the action reported the session expired
ReloginFailed(c) ==
    /\ pc[c] = "done"
    /\ Len(runs[c]) >= 1
    /\ runs[c][1].result = "UnauthenticatedSessionException"
    /\ outcome[c][1].from = "ensure"

\* C27: when the first run raised UnauthenticatedSessionException and the
\* ensureAuthenticated that follows fails, the action is not run again, what
\* propagates is the ApplicationException of ensureAuthenticated, and the cache
\* is absent afterwards.
C27_FailedRelogin ==
    \A c \in Callers :
        ReloginFailed(c) =>
            /\ Len(runs[c]) = 1
            /\ outcome[c][1].kind = "ApplicationException"
            /\ cachedCookies = None

\* the same without the state of the cache
FailedReloginPropagates ==
    \A c \in Callers :
        ReloginFailed(c) =>
            /\ Len(runs[c]) = 1
            /\ outcome[c][1].kind = "ApplicationException"
            /\ outcome[c][1].n = 2

(***************************************************************************)
(* Properties of errors that are not authentication failures.              *)
(***************************************************************************)
\* the first run of the action of caller c ends in this step with an error
\* that is not the authentication failure
FirstRunFails(c) ==
    /\ pc[c] = "run" /\ runs[c] = <<>>
    /\ runs'[c] # <<>> /\ runs'[c][1].result = "ApplicationException"

NotRetried ==
    \A c \in Callers :
        /\ (pc[c] = "done" /\ runs[c] # <<>> /\ runs[c][1].result = "ApplicationException") =>
              /\ Len(runs[c]) = 1
              /\ ensures[c] = 1
              /\ outcome[c] = Outcome("ApplicationException",
                                       ActionError("ApplicationException").message, "run", 1)
        /\ (pc[c] = "done" /\ outcome[c][1].from = "ensure" /\ outcome[c][1].n = 1) =>
              runs[c] = <<>>

\* C28: when the action raises an error other than
\* UnauthenticatedSessionException, withAutoLogin has run it once, starts no
\* login, leaves the cache as it is and ends with that same error; and when
\* the first ensureAuthenticated fails the action is not run.
C28_OtherErrorsNotRetried ==
    /\ []NotRetried
    /\ [][\A c \in Callers :
            FirstRunFails(c) =>
                /\ cachedCookies' = cachedCookies
                /\ loginRequests' = loginRequests
                /\ logins'[c] = logins[c]
                /\ pc'[c] = "done"]_vars

\* a call ended with the error of its only run and the session is still cached
C28_Witness ==
    \E c \in Callers :
        /\ pc[c] = "done"
        /\ Len(runs[c]) = 1 /\ runs[c][1].result = "ApplicationException"
        /\ outcome[c][1].kind = "ApplicationException" /\ outcome[c][1].from = "run"
        /\ cachedCookies = cookies[c]
        /\ cachedCookies # None

(***************************************************************************)
(* Properties of the session map of the HTTP server.                       *)
(***************************************************************************)
\* every entry of the map refers to a transport that is open
EntriesOpen == \A t \in http.sessions : http.transports[t].state = "open"

\* the POST, GET or DELETE carried a session id that was not in the map when
\* the handler looked, or gave up
UnknownSession(r) ==
    /\ http.reqs[r].pc = "done"
    /\ http.reqs[r].method \in {"POST", "GET", "DELETE"}
    /\ http.reqs[r].sessionId # None
    /\ ~http.reqs[r].known

\* C29: every entry of the session map refers to a transport that has not
\* been closed, under every interleaving of initial POSTs, follow-up requests
\* and transport closes; and a request that carries a session id which is
\* not in the map is answered 400, is handed to no transport and creates no
\* session.
C29_SessionMap ==
    /\ EntriesOpen
    /\ \A r \in RequestIds :
          UnknownSession(r) =>
              /\ http.reqs[r].answer = "400"
              /\ http.reqs[r].transport = None
              /\ ~http.reqs[r].created

\* a request with an unknown session id reaches no transport and creates none
UnknownSessionNotServed ==
    \A r \in RequestIds :
        UnknownSession(r) =>
            /\ http.reqs[r].answer \in {"400", "500"}
            /\ http.reqs[r].transport = None
            /\ ~http.reqs[r].created

\* an entry is added only by the initial POST that created the transport
EntriesFromInitialPost ==
    [][\A t \in TransportIds :
          (t \in http'.sessions /\ t \notin http.sessions) =>
              \E r \in RequestIds :
                  /\ http.reqs[r].pc = "initializing"
                  /\ http.reqs[r].transport = Some(t)
                  /\ http.reqs[r].sessionId = None
                  /\ http'.reqs[r].pc = "done"]_vars

(***************************************************************************)
(* Termination of buscar_nfse.                                             *)
(***************************************************************************)
\* the handling of a response, scraped or failed, ends in this step and the
\* loop goes on
WindowPassed == cpc = "await" /\ cpc' = "loop"

EmptyRange == data_inicio > data_fim

====
